---- MODULE Spec2Model ----
(***************************************************************************)
(* The fuzzy content cache of llms-txt-generator: UrlNormalizer            *)
(* (lib/urlNormalizer.ts), SimHash (lib/softHash.ts) and the UrlMetaStore  *)
(* Durable Object (durable-objects/UrlMetaStore.ts).                       *)
(*                                                                         *)
(* Strings are TLA+ strings; a character is a string of length 1.          *)
(* Numbers that are fractions in the source (similarity, thresholds) are   *)
(* pairs <<numerator, denominator>> with a positive denominator.           *)
(***************************************************************************)
EXTENDS Integers, Sequences, FiniteSets, TLC

(***************************************************************************)
(* JavaScript string primitives                                            *)
(***************************************************************************)
Undefined == "<undefined>"

CharAt(s, i) == SubSeq(s, i, i)

UpperChars == "ABCDEFGHIJKLMNOPQRSTUVWXYZ"
LowerChars == "abcdefghijklmnopqrstuvwxyz"
DigitChars == "0123456789"
HexChars == "0123456789abcdef"

\* the index of character c in the string s, 0 when it does not occur
IndexIn(c, s) ==
    IF \E i \in 1..Len(s) : CharAt(s, i) = c
    THEN CHOOSE i \in 1..Len(s) : CharAt(s, i) = c
    ELSE 0

IsSpace(c) == c \in {" ", "\t", "\n", "\r"}

\* \w of a JavaScript regular expression
IsWordChar(c) ==
    \/ IndexIn(c, UpperChars) > 0
    \/ IndexIn(c, LowerChars) > 0
    \/ IndexIn(c, DigitChars) > 0
    \/ c = "_"

RECURSIVE toLowerCase(_)
toLowerCase(s) ==
    IF s = "" THEN ""
    ELSE LET c == CharAt(s, 1)
             u == IndexIn(c, UpperChars)
         IN (IF u > 0 THEN CharAt(LowerChars, u) ELSE c)
                \o toLowerCase(SubSeq(s, 2, Len(s)))

RECURSIVE trimStart(_)
trimStart(s) ==
    IF s # "" /\ IsSpace(CharAt(s, 1)) THEN trimStart(SubSeq(s, 2, Len(s))) ELSE s

RECURSIVE trimEnd(_)
trimEnd(s) ==
    IF s # "" /\ IsSpace(CharAt(s, Len(s))) THEN trimEnd(SubSeq(s, 1, Len(s) - 1)) ELSE s

trim(s) == trimEnd(trimStart(s))

startsWith(s, p) == Len(s) >= Len(p) /\ SubSeq(s, 1, Len(p)) = p

endsWith(s, p) == Len(s) >= Len(p) /\ SubSeq(s, Len(s) - Len(p) + 1, Len(s)) = p

dropPrefix(s, p) == IF startsWith(s, p) THEN SubSeq(s, Len(p) + 1, Len(s)) ELSE s

(***************************************************************************)
(* UrlNormalizer                                                           *)
(***************************************************************************)
\* replace(/^https?:\/\//, "")
removeProtocol(s) ==
    IF startsWith(s, "http://") THEN dropPrefix(s, "http://")
    ELSE dropPrefix(s, "https://")

\* replace(/^www\./, "")
removeWww(s) == dropPrefix(s, "www.")

\* replace(/\/+/g, "/")
RECURSIVE collapseSlashes(_)
collapseSlashes(s) ==
    IF s = "" THEN ""
    ELSE IF Len(s) >= 2 /\ CharAt(s, 1) = "/" /\ CharAt(s, 2) = "/"
         THEN collapseSlashes(SubSeq(s, 2, Len(s)))
         ELSE CharAt(s, 1) \o collapseSlashes(SubSeq(s, 2, Len(s)))

ensureTrailingSlash(s) == IF endsWith(s, "/") THEN s ELSE s \o "/"

\* normalize without the replace of the runs of slashes
normalize_noCollapse(url) ==
    IF url = Undefined \/ url = "" THEN ""
    ELSE ensureTrailingSlash(removeWww(removeProtocol(toLowerCase(trim(url)))))

\* normalize without toLowerCase
normalize_keepCase(url) ==
    IF url = Undefined \/ url = "" THEN ""
    ELSE collapseSlashes(ensureTrailingSlash(removeWww(removeProtocol(trim(url)))))

UrlNormalizer_normalize(url) ==
    IF url = Undefined \/ url = "" THEN ""
    ELSE collapseSlashes(
             ensureTrailingSlash(
                 removeWww(removeProtocol(toLowerCase(trim(url))))))

(***************************************************************************)
(* Fractions                                                               *)
(***************************************************************************)
Frac(n, d) == <<n, d>>

FracGE(a, b) == a[1] * b[2] >= b[1] * a[2]

FracEq(a, b) == a[1] * b[2] = b[1] * a[2]

(***************************************************************************)
(* SimHash                                                                 *)
(***************************************************************************)
HASH_BITS == 64
KGRAM_SIZE == 5
HASH_SHIFT == 5
EMPTY_HASH == "0000000000000000"
SIMILARITY_THRESHOLD_DEFAULT == Frac(8, 10)

\* String.prototype.charCodeAt for the characters normalizeContent lets through
\* and the punctuation of the urls
charCode(c) ==
    IF c = " " THEN 32
    ELSE IF c = "_" THEN 95
    ELSE IF c = "." THEN 46
    ELSE IF c = "/" THEN 47
    ELSE IF c = ":" THEN 58
    ELSE IF c = "|" THEN 124
    ELSE IF IndexIn(c, DigitChars) > 0 THEN 47 + IndexIn(c, DigitChars)
    ELSE IF IndexIn(c, LowerChars) > 0 THEN 96 + IndexIn(c, LowerChars)
    ELSE IF IndexIn(c, UpperChars) > 0 THEN 64 + IndexIn(c, UpperChars)
    ELSE 63

RECURSIVE Pow2(_)
Pow2(n) == IF n = 0 THEN 1 ELSE 2 * Pow2(n - 1)

Half == Pow2(16)

\* replace(/\s+/g, " ")
RECURSIVE collapseWhitespace(_)
collapseWhitespace(s) ==
    IF s = "" THEN ""
    ELSE IF IsSpace(CharAt(s, 1))
         THEN IF Len(s) >= 2 /\ IsSpace(CharAt(s, 2))
              THEN collapseWhitespace(SubSeq(s, 2, Len(s)))
              ELSE " " \o collapseWhitespace(SubSeq(s, 2, Len(s)))
         ELSE CharAt(s, 1) \o collapseWhitespace(SubSeq(s, 2, Len(s)))

\* replace(/[^\w\s]/g, "")
RECURSIVE removePunctuation(_)
removePunctuation(s) ==
    IF s = "" THEN ""
    ELSE LET c == CharAt(s, 1)
         IN (IF IsWordChar(c) \/ IsSpace(c) THEN c ELSE "")
                \o removePunctuation(SubSeq(s, 2, Len(s)))

normalizeContent(content) ==
    trim(removePunctuation(collapseWhitespace(toLowerCase(content))))

\* extractFeatures taking a content shorter than a k-gram as one feature
extractFeatures_wholeWhenShort(content) ==
    IF 0 < Len(content) /\ Len(content) < KGRAM_SIZE
    THEN [k \in {content} |-> 1]
    ELSE LET starts == 1..(Len(content) - KGRAM_SIZE + 1)
             kgram(i) == SubSeq(content, i, i + KGRAM_SIZE - 1)
             keys == {kgram(i) : i \in starts}
         IN [k \in keys |-> Cardinality({i \in starts : kgram(i) = k})]

\* Map<string, number>: the k-grams of content with their multiplicities
extractFeatures(content) ==
    LET starts == 1..(Len(content) - KGRAM_SIZE + 1)
        kgram(i) == SubSeq(content, i, i + KGRAM_SIZE - 1)
        keys == {kgram(i) : i \in starts}
    IN [k \in keys |-> Cardinality({i \in starts : kgram(i) = k})]

\* an unsigned 32-bit number is <<high 16 bits, low 16 bits>>;
\* ((hash << 5) - hash + char) >>> 0 is (31 * hash + char) mod 2^32
hashStep(h, char) ==
    LET lo == h[2] * (Pow2(HASH_SHIFT) - 1) + char
        hi == h[1] * (Pow2(HASH_SHIFT) - 1) + (lo \div Half)
    IN <<hi % Half, lo % Half>>

RECURSIVE simpleHashFrom(_, _)
simpleHashFrom(h, str) ==
    IF str = "" THEN h
    ELSE simpleHashFrom(hashStep(h, charCode(CharAt(str, 1))), SubSeq(str, 2, Len(str)))

simpleHash(str) == simpleHashFrom(<<0, 0>>, str)

\* (hash >> i) & 1 with the shift count taken as it stands: 0 from bit 32 on
hashBit_noWrap(h, i) ==
    IF i >= 32 THEN 0
    ELSE IF i < 16 THEN (h[2] \div Pow2(i)) % 2 ELSE (h[1] \div Pow2(i - 16)) % 2

\* (hash >> i) & 1: the shift count of >> is taken modulo 32
hashBit(h, i) ==
    LET k == i % 32
    IN IF k < 16 THEN (h[2] \div Pow2(k)) % 2 ELSE (h[1] \div Pow2(k - 16)) % 2

RECURSIVE SumOver(_, _)
SumOver(f, S) ==
    IF S = {} THEN 0
    ELSE LET x == CHOOSE y \in S : TRUE IN f[x] + SumOver(f, S \ {x})

\* weights[i] after the loop over the features
weight(features, hashes, i) ==
    SumOver([k \in DOMAIN features |->
                IF hashBit(hashes[k], i) = 1 THEN features[k] ELSE 0 - features[k]],
            DOMAIN features)

\* computeSimHash setting the bit when the weight is zero too
computeSimHash_tiesSet(features) ==
    LET hashes == [k \in DOMAIN features |-> simpleHash(k)]
    IN {i \in 0..(HASH_BITS - 1) : weight(features, hashes, i) >= 0}

\* a BigInt below 2^64 is the set of its set bit positions
computeSimHash(features) ==
    LET hashes == [k \in DOMAIN features |-> simpleHash(k)]
    IN {i \in 0..(HASH_BITS - 1) : weight(features, hashes, i) > 0}

nibble(bits, j) ==
    SumOver([b \in 0..3 |-> IF (4 * j + b) \in bits THEN Pow2(b) ELSE 0], 0..3)

\* BigInt.prototype.toString(16): no leading zeros, "0" for zero
RECURSIVE hexFrom(_, _)
hexFrom(bits, j) ==
    IF j < 0 THEN ""
    ELSE CharAt(HexChars, nibble(bits, j) + 1) \o hexFrom(bits, j - 1)

toString16(bits) ==
    IF bits = {} THEN "0"
    ELSE LET top == CHOOSE i \in bits : \A k \in bits : k <= i
         IN hexFrom(bits, top \div 4)

RECURSIVE padStart(_, _, _)
padStart(s, n, fill) == IF Len(s) >= n THEN s ELSE padStart(fill \o s, n, fill)

\* hash without padStart
SimHash_hash_noPad(content) ==
    IF content = Undefined \/ Len(content) = 0 THEN EMPTY_HASH
    ELSE toString16(computeSimHash(extractFeatures(normalizeContent(content))))

SimHash_hash(content) ==
    IF content = Undefined \/ Len(content) = 0 THEN EMPTY_HASH
    ELSE padStart(toString16(computeSimHash(extractFeatures(normalizeContent(content)))),
                  16, "0")

\* BigInt(`0x${hash}`)
parseHex(h) ==
    {i \in 0..(4 * Len(h) - 1) :
        LET digit == IndexIn(CharAt(h, Len(h) - (i \div 4)), HexChars) - 1
        IN (digit \div Pow2(i % 4)) % 2 = 1}

\* the loop of countBits adds one per set bit
countBits(n) == Cardinality(n)

bigXor(a, b) == (a \ b) \cup (b \ a)

\* similarity returning the share of the bits that differ
similarity_asDifference(hash1, hash2) ==
    LET hammingDistance == countBits(bigXor(parseHex(hash1), parseHex(hash2)))
    IN Frac(hammingDistance, HASH_BITS)

\* similarity counting the differences of the low 32 bits only
similarity_low32(hash1, hash2) ==
    LET hammingDistance ==
            countBits({i \in bigXor(parseHex(hash1), parseHex(hash2)) : i < 32})
    IN Frac(HASH_BITS - hammingDistance, HASH_BITS)

similarity(hash1, hash2) ==
    LET hammingDistance == countBits(bigXor(parseHex(hash1), parseHex(hash2)))
    IN Frac(HASH_BITS - hammingDistance, HASH_BITS)

isSimilar(hash1, hash2, threshold) == FracGE(similarity(hash1, hash2), threshold)

(***************************************************************************)
(* UrlNormalizer on lists of urls                                          *)
(***************************************************************************)
\* a < b as Array.prototype.sort compares strings: by UTF-16 code units
RECURSIVE stringLess(_, _)
stringLess(a, b) ==
    IF b = "" THEN FALSE
    ELSE IF a = "" THEN TRUE
    ELSE IF CharAt(a, 1) = CharAt(b, 1)
         THEN stringLess(SubSeq(a, 2, Len(a)), SubSeq(b, 2, Len(b)))
         ELSE charCode(CharAt(a, 1)) < charCode(CharAt(b, 1))

\* x put into the sorted list, after the elements that do not come after it
RECURSIVE insertSorted(_, _)
insertSorted(x, list) ==
    IF list = <<>> THEN <<x>>
    ELSE IF stringLess(x, Head(list)) THEN <<x>> \o list
    ELSE <<Head(list)>> \o insertSorted(x, Tail(list))

\* Array.prototype.sort() without a comparator: stable, ascending
RECURSIVE sort(_)
sort(list) ==
    IF list = <<>> THEN <<>>
    ELSE insertSorted(list[Len(list)], sort(SubSeq(list, 1, Len(list) - 1)))

\* Array.prototype.join(sep)
RECURSIVE join(_, _)
join(list, sep) ==
    IF list = <<>> THEN ""
    ELSE IF Len(list) = 1 THEN list[1]
    ELSE list[1] \o sep \o join(Tail(list), sep)

RECURSIVE filterNonEmpty(_)
filterNonEmpty(list) ==
    IF list = <<>> THEN <<>>
    ELSE (IF Len(Head(list)) > 0 THEN <<Head(list)>> ELSE <<>>) \o filterNonEmpty(Tail(list))

normalizeArray(urls) ==
    filterNonEmpty([i \in 1..Len(urls) |-> UrlNormalizer_normalize(urls[i])])

\* generateCacheKey joining the keys in the order of the urls
generateCacheKey_unsorted(urls) == join(normalizeArray(urls), "|")

generateCacheKey(urls) == join(sort(normalizeArray(urls)), "|")

(***************************************************************************)
(* The requests the model sends                                            *)
(***************************************************************************)
\* one resource under three spellings, and one resource nobody stored at first
Urls == {"https://example.com", "HTTP://WWW.Example.com/", "example.com",
         "https://neverstored.example"}

\* four resources, for the runs that fill the map past MAX_RECORDS
ManyUrls == {"a.example", "b.example", "c.example", "d.example"}

TestPage == "Hello world, this is a test page."
BestPage == "Hello world, this is a best page."
Unrelated == "Completely unrelated content about cooking recipes and kitchen tools."

Contents == {TestPage, BestPage, Unrelated}

\* contents whose normalized form has fewer than KGRAM_SIZE characters
ShortContents == {"", "Hi!", "a b", "ab-cd", "  ?  "}

LlmsTxts == {"SUMMARY-1", "SUMMARY-2"}

\* omitted, 0.5, 1, and 1.2 (outside [0,1])
Thresholds == {Undefined, <<1, 2>>, <<1, 1>>, <<6, 5>>}

\* normalize and hash of the strings above, computed once
NormalizedUrl == [url \in Urls \cup ManyUrls |-> UrlNormalizer_normalize(url)]

ContentHash == [content \in Contents \cup ShortContents |-> SimHash_hash(content)]

normalize(url) ==
    IF url \in DOMAIN NormalizedUrl THEN NormalizedUrl[url] ELSE UrlNormalizer_normalize(url)

hash(content) ==
    IF content \in DOMAIN ContentHash THEN ContentHash[content] ELSE SimHash_hash(content)

areEquivalent(url1, url2) == normalize(url1) = normalize(url2)

(***************************************************************************)
(* UrlMetaStore: records and the history kept under "url_meta_history"     *)
(***************************************************************************)
\* MAX_RECORDS is 1000 in the source; the model runs it at MaxRecordsBound
MaxRecordsBound == 2
MAX_RECORDS == MaxRecordsBound

\* ONE_DAY_MS is 24 * 60 * 60 * 1000 in the source; the model runs it at OneDayBound
OneDayBound == 1
ONE_DAY_MS == OneDayBound

\* the bounds of the model: the writes a history takes, and the clock
MaxWrites == 2
MaxManyWrites == 3
MaxTime == 2

\* { ...a, ...b } on objects; spreading undefined adds nothing
NoMetadata == <<>>

Spread(a, b) ==
    [k \in (DOMAIN a) \cup (DOMAIN b) |-> IF k \in DOMAIN b THEN b[k] ELSE a[k]]

\* what storage.get("url_meta_history") gives when nothing is stored
Absent == [present |-> FALSE, records |-> <<>>, totalQueries |-> 0, lastUpdated |-> 0]

\* getHistory: the stored history, or a fresh empty one
getHistory(stored, t) ==
    IF stored.present THEN stored
    ELSE [present |-> TRUE, records |-> <<>>, totalQueries |-> 0, lastUpdated |-> t]

\* Map.prototype.has / get / set / size on the insertion-ordered records
mapHas(records, key) == \E i \in 1..Len(records) : records[i].url = key

mapGet(records, key) == records[CHOOSE i \in 1..Len(records) : records[i].url = key]

mapSet(records, key, rec) ==
    IF mapHas(records, key)
    THEN [i \in 1..Len(records) |-> IF records[i].url = key THEN rec ELSE records[i]]
    ELSE Append(records, rec)

mapKeys(records) == {records[i].url : i \in 1..Len(records)}

\* entries.sort((a, b) => b[1].lastQueried - a[1].lastQueried): stable, descending
RECURSIVE sortByLastQueriedDesc(_)
sortByLastQueriedDesc(entries) ==
    IF entries = <<>> THEN <<>>
    ELSE LET best == CHOOSE i \in 1..Len(entries) :
                        /\ \A j \in 1..Len(entries) :
                              entries[j].lastQueried <= entries[i].lastQueried
                        /\ \A j \in 1..(i - 1) :
                              entries[j].lastQueried < entries[i].lastQueried
             rest == [j \in 1..(Len(entries) - 1) |->
                         IF j < best THEN entries[j] ELSE entries[j + 1]]
         IN <<entries[best]>> \o sortByLastQueriedDesc(rest)

\* trimRecords slicing one record too many
trimRecords_oneTooMany(records) ==
    IF Len(records) > MAX_RECORDS
    THEN SubSeq(sortByLastQueriedDesc(records), 1, MAX_RECORDS + 1)
    ELSE records

\* trimRecords keeping the tail of the sorted entries
trimRecords_keepsOldest(records) ==
    IF Len(records) > MAX_RECORDS
    THEN SubSeq(sortByLastQueriedDesc(records),
                Len(records) - MAX_RECORDS + 1, Len(records))
    ELSE records

\* the records kept once the map has grown past MAX_RECORDS
trimRecords(records) ==
    IF Len(records) > MAX_RECORDS
    THEN SubSeq(sortByLastQueriedDesc(records), 1, MAX_RECORDS)
    ELSE records

\* storeRecord spreading the existing record over the new one
storeRecordApply_keepsExisting(history, record, t) ==
    LET normalizedUrl == record.url
        entry == IF mapHas(history.records, normalizedUrl)
                 THEN [mapGet(history.records, normalizedUrl) EXCEPT
                          !.queryCount = @ + 1, !.lastQueried = t]
                 ELSE [record EXCEPT !.queryCount = 1, !.lastQueried = t]
    IN [present |-> TRUE,
        records |-> trimRecords(mapSet(history.records, normalizedUrl, entry)),
        totalQueries |-> history.totalQueries + 1,
        lastUpdated |-> t]

\* storeRecord counting from the queryCount of the record it is handed
storeRecordApply_countsFromRecord(history, record, t) ==
    LET normalizedUrl == record.url
        entry == IF mapHas(history.records, normalizedUrl)
                 THEN [record EXCEPT !.queryCount = @ + 1, !.lastQueried = t]
                 ELSE [record EXCEPT !.queryCount = 1, !.lastQueried = t]
    IN [present |-> TRUE,
        records |-> trimRecords(mapSet(history.records, normalizedUrl, entry)),
        totalQueries |-> history.totalQueries + 1,
        lastUpdated |-> t]

\* storeRecord between its getHistory and its storage.put
storeRecordApply(history, record, t) ==
    LET normalizedUrl == record.url
        entry == IF mapHas(history.records, normalizedUrl)
                 THEN [record EXCEPT
                          !.queryCount = mapGet(history.records, normalizedUrl).queryCount + 1,
                          !.lastQueried = t]
                 ELSE [record EXCEPT !.queryCount = 1, !.lastQueried = t]
    IN [present |-> TRUE,
        records |-> trimRecords(mapSet(history.records, normalizedUrl, entry)),
        totalQueries |-> history.totalQueries + 1,
        lastUpdated |-> t]

\* the record storeContent builds before it calls storeRecord
storeContentRecord(url, sanitizedContent, llmsTxt, threshold, metadata, t) ==
    [url |-> normalize(url),
     contentHash |-> hash(sanitizedContent),
     llmsTxt |-> llmsTxt,
     timestamp |-> t,
     lastQueried |-> t,
     queryCount |-> 1,
     comparisonThreshold |-> threshold,
     metadata |-> Spread([contentLength |-> Len(sanitizedContent),
                          processingTime |-> t,
                          originalUrl |-> url],
                         metadata)]

\* updateLlmsTxt leaving the llmsTxt of the existing record in place
updateLlmsTxtRecord_keepsLlmsTxt(existingRecord, newLlmsTxt, metadata, t) ==
    [existingRecord EXCEPT
        !.lastQueried = t,
        !.queryCount = existingRecord.queryCount + 1,
        !.metadata = Spread(Spread(existingRecord.metadata, metadata),
                            [processingTime |-> t])]

\* updateLlmsTxt resetting the contentHash of the record it rebuilds
updateLlmsTxtRecord_resetsHash(existingRecord, newLlmsTxt, metadata, t) ==
    [existingRecord EXCEPT
        !.llmsTxt = newLlmsTxt,
        !.contentHash = EMPTY_HASH,
        !.lastQueried = t,
        !.queryCount = existingRecord.queryCount + 1,
        !.metadata = Spread(Spread(existingRecord.metadata, metadata),
                            [processingTime |-> t])]

\* the record updateLlmsTxt builds from the existing one
updateLlmsTxtRecord(existingRecord, newLlmsTxt, metadata, t) ==
    [existingRecord EXCEPT
        !.llmsTxt = newLlmsTxt,
        !.lastQueried = t,
        !.queryCount = existingRecord.queryCount + 1,
        !.metadata = Spread(Spread(existingRecord.metadata, metadata),
                            [processingTime |-> t])]

\* checkCache comparing with the threshold kept on the record
checkCacheResult_recordThreshold(history, url, sanitizedContent, threshold) ==
    LET normalizedUrl == normalize(url)
    IN IF ~mapHas(history.records, normalizedUrl)
       THEN [cached |-> FALSE]
       ELSE LET existingRecord == mapGet(history.records, normalizedUrl)
                newContentHash == hash(sanitizedContent)
                sim == similarity(existingRecord.contentHash, newContentHash)
            IN IF FracGE(sim, existingRecord.comparisonThreshold)
               THEN [cached |-> TRUE,
                     llmsTxt |-> existingRecord.llmsTxt,
                     record |-> existingRecord,
                     similarity |-> sim,
                     threshold |-> threshold,
                     contentHash |-> newContentHash]
               ELSE [cached |-> FALSE,
                     similarity |-> sim,
                     threshold |-> threshold,
                     contentHash |-> newContentHash]

\* checkCache comparing with > where the source has >=
checkCacheResult_strict(history, url, sanitizedContent, threshold) ==
    LET normalizedUrl == normalize(url)
    IN IF ~mapHas(history.records, normalizedUrl)
       THEN [cached |-> FALSE]
       ELSE LET existingRecord == mapGet(history.records, normalizedUrl)
                newContentHash == hash(sanitizedContent)
                sim == similarity(existingRecord.contentHash, newContentHash)
            IN IF ~FracGE(threshold, sim)
               THEN [cached |-> TRUE,
                     llmsTxt |-> existingRecord.llmsTxt,
                     record |-> existingRecord,
                     similarity |-> sim,
                     threshold |-> threshold,
                     contentHash |-> newContentHash]
               ELSE [cached |-> FALSE,
                     similarity |-> sim,
                     threshold |-> threshold,
                     contentHash |-> newContentHash]

\* checkCache once the history is read
checkCacheResult(history, url, sanitizedContent, threshold) ==
    LET normalizedUrl == normalize(url)
    IN IF ~mapHas(history.records, normalizedUrl)
       THEN [cached |-> FALSE]
       ELSE LET existingRecord == mapGet(history.records, normalizedUrl)
                newContentHash == hash(sanitizedContent)
                sim == similarity(existingRecord.contentHash, newContentHash)
            IN IF FracGE(sim, threshold)
               THEN [cached |-> TRUE,
                     llmsTxt |-> existingRecord.llmsTxt,
                     record |-> existingRecord,
                     similarity |-> sim,
                     threshold |-> threshold,
                     contentHash |-> newContentHash]
               ELSE [cached |-> FALSE,
                     similarity |-> sim,
                     threshold |-> threshold,
                     contentHash |-> newContentHash]

\* getLatestRecordForUrl once the history is read: the record, or null
getLatestRecordResult(history, url) ==
    IF mapHas(history.records, normalize(url))
    THEN [found |-> TRUE, record |-> mapGet(history.records, normalize(url))]
    ELSE [found |-> FALSE]

\* getStats counting every record, whatever its lastQueried
getStatsResult_countsAll(history, t) ==
    [totalQueries |-> history.totalQueries,
     uniqueUrls |-> Len(history.records),
     lastUpdated |-> history.lastUpdated,
     recentActivity |-> Len(history.records)]

\* getStats reporting the writes taken as the number of urls
getStatsResult_countsQueries(history, t) ==
    [totalQueries |-> history.totalQueries,
     uniqueUrls |-> history.totalQueries,
     lastUpdated |-> history.lastUpdated,
     recentActivity |-> Cardinality({i \in 1..Len(history.records) :
                                        history.records[i].lastQueried > t - ONE_DAY_MS})]

\* getStats once the history is read, at time t
getStatsResult(history, t) ==
    [totalQueries |-> history.totalQueries,
     uniqueUrls |-> Len(history.records),
     lastUpdated |-> history.lastUpdated,
     recentActivity |-> Cardinality({i \in 1..Len(history.records) :
                                        history.records[i].lastQueried > t - ONE_DAY_MS})]

(***************************************************************************)
(* The Durable Object: one storage value, a clock, and the requests that   *)
(* fetch() is serving.  A request is at the await it has reached.          *)
(***************************************************************************)
VARIABLES
    storage,    \* state.storage: the value under "url_meta_history"
    now,        \* Date.now()
    reqs,       \* the requests in the object, by slot
    written,    \* history variable: per key, what the completed writes left there
    cleared,    \* history variable: clearAll completed and no write was called since
    call,       \* a call of a static method of UrlNormalizer or SimHash, outside the object
    handler     \* the generate route: the POST it is serving, at the await it has reached

vars == <<storage, now, reqs, written, cleared, call, handler>>

Slots == {1, 2}

Idle == [pc |-> "idle"]

\* no static method is being called
NoCall == [fn |-> "none"]

\* the generate route serves no request
NoPost == [pc |-> "idle", posts |-> 0]

StoragePcs == {"checkCache:get", "updateLlmsTxt:get", "storeRecord:get",
               "storeRecord:put", "getLatest:get", "clearAll:delete"}

Pending(r) == reqs[r].pc \in StoragePcs

\* an object whose storage operations do not hold back other events
InputGateAlwaysOpen == TRUE

\* storage.get / put / delete are called without allowConcurrency: while one is
\* pending the object's input gate is closed and no other event is delivered
InputGateOpen == \A r \in Slots : ~Pending(r)

\* another request is in the object, not yet answered
Overlaps(r) == \E q \in Slots \ {r} : reqs[q].pc \notin {"idle", "done"}

Ok == [status |-> 200]

InternalError(details) ==
    [status |-> 500, error |-> "Internal server error", details |-> details]

thresholdOrDefault(threshold) ==
    IF threshold = Undefined THEN SIMILARITY_THRESHOLD_DEFAULT ELSE threshold

\* history variable: what the completed write of req leaves in `written`
writtenAfter(w, req, after) ==
    LET key == IF req.op = "storeRecord" THEN req.record.url ELSE normalize(req.url)
        old == {e \in w : e.key = key}
        writes == IF old = {} THEN 1 ELSE (CHOOSE e \in old : TRUE).writes + 1
        entry == IF req.op = "storeContent"
                 THEN {[key |-> key, url |-> req.url, content |-> req.content,
                        contentHash |-> hash(req.content), llmsTxt |-> req.llmsTxt,
                        storedLlmsTxt |-> req.llmsTxt,
                        updated |-> FALSE, writes |-> writes]}
                 ELSE IF req.op = "updateLlmsTxt"
                 THEN {[e EXCEPT !.llmsTxt = req.llmsTxt, !.updated = TRUE,
                                 !.writes = writes] : e \in old}
                 ELSE {[key |-> key, url |-> key, content |-> Undefined,
                        contentHash |-> req.record.contentHash,
                        llmsTxt |-> req.record.llmsTxt,
                        storedLlmsTxt |-> req.record.llmsTxt,
                        updated |-> FALSE, writes |-> writes]}
    \* a key leaves `written` only when the map is full: eviction took it
    IN {e \in (w \ old) \cup entry :
           mapHas(after.records, e.key) \/ Len(after.records) >= MAX_RECORDS}

Init ==
    /\ storage = Absent
    /\ now = 0
    /\ reqs = [r \in Slots |-> Idle]
    /\ written = {}
    /\ cleared = FALSE
    /\ call = NoCall
    /\ handler = NoPost

Tick ==
    /\ now < MaxTime
    /\ now' = now + 1
    /\ UNCHANGED <<storage, reqs, written, cleared, call, handler>>

\* fetch() entered for a POST with a body: up to `await request.json()`
FetchPost(r, request) ==
    /\ reqs[r].pc = "idle"
    /\ InputGateOpen
    /\ reqs' = [reqs EXCEPT ![r] =
                   [pc |-> "json", overlap |-> Overlaps(r)] @@ request]
    /\ UNCHANGED <<storage, now, written, cleared, call, handler>>

\* POST /check-cache
FetchCheckCache(r, url, sanitizedContent, threshold) ==
    FetchPost(r, [op |-> "checkCache", url |-> url, content |-> sanitizedContent,
                  threshold |-> threshold])

\* POST /store-content
FetchStoreContent(r, url, sanitizedContent, llmsTxt, threshold, metadata) ==
    FetchPost(r, [op |-> "storeContent", url |-> url, content |-> sanitizedContent,
                  llmsTxt |-> llmsTxt, threshold |-> threshold, metadata |-> metadata])

\* POST /update-llms-txt
FetchUpdateLlmsTxt(r, url, newLlmsTxt, metadata) ==
    FetchPost(r, [op |-> "updateLlmsTxt", url |-> url, llmsTxt |-> newLlmsTxt,
                  metadata |-> metadata])

\* POST /store
FetchStore(r, record) == FetchPost(r, [op |-> "storeRecord", record |-> record])

\* the body is parsed: checkCache runs up to its getHistory
CallCheckCache(r) ==
    /\ reqs[r].pc = "json" /\ reqs[r].op = "checkCache"
    /\ InputGateOpen
    /\ reqs' = [reqs EXCEPT ![r].pc = "checkCache:get"]
    /\ UNCHANGED <<storage, now, written, cleared, call, handler>>

\* the body is parsed: storeContent builds its record and runs storeRecord
\* up to its getHistory
CallStoreContent(r) ==
    /\ reqs[r].pc = "json" /\ reqs[r].op = "storeContent"
    /\ InputGateOpen
    /\ reqs' = [reqs EXCEPT ![r] =
                   [reqs[r] EXCEPT !.pc = "storeRecord:get"] @@
                   [record |-> storeContentRecord(reqs[r].url, reqs[r].content,
                                   reqs[r].llmsTxt, thresholdOrDefault(reqs[r].threshold),
                                   reqs[r].metadata, now),
                    afterClear |-> cleared]]
    /\ cleared' = FALSE
    /\ UNCHANGED <<storage, now, written, call, handler>>

\* the body is parsed: updateLlmsTxt runs up to its getHistory
CallUpdateLlmsTxt(r) ==
    /\ reqs[r].pc = "json" /\ reqs[r].op = "updateLlmsTxt"
    /\ InputGateOpen
    /\ reqs' = [reqs EXCEPT ![r] =
                   [reqs[r] EXCEPT !.pc = "updateLlmsTxt:get"] @@ [afterClear |-> cleared]]
    /\ cleared' = FALSE
    /\ UNCHANGED <<storage, now, written, call, handler>>

\* the body is parsed: storeRecord runs up to its getHistory
CallStoreRecord(r) ==
    /\ reqs[r].pc = "json" /\ reqs[r].op = "storeRecord"
    /\ InputGateOpen
    /\ reqs' = [reqs EXCEPT ![r] =
                   [reqs[r] EXCEPT !.pc = "storeRecord:get"] @@ [afterClear |-> cleared]]
    /\ cleared' = FALSE
    /\ UNCHANGED <<storage, now, written, call, handler>>

\* GET /url and GET /latest: getLatestRecordForUrl up to its getHistory
FetchLatest(r, url) ==
    /\ reqs[r].pc = "idle"
    /\ InputGateOpen
    /\ reqs' = [reqs EXCEPT ![r] =
                   [pc |-> "getLatest:get", overlap |-> Overlaps(r),
                    op |-> "getLatest", url |-> url]]
    /\ UNCHANGED <<storage, now, written, cleared, call, handler>>

\* POST /clear: clearAll up to its storage.delete
FetchClear(r) ==
    /\ reqs[r].pc = "idle"
    /\ InputGateOpen
    /\ reqs' = [reqs EXCEPT ![r] =
                   [pc |-> "clearAll:delete", overlap |-> Overlaps(r), op |-> "clearAll"]]
    /\ UNCHANGED <<storage, now, written, cleared, call, handler>>

\* GET /stats: the dispatcher has no such case and answers 404
FetchStats(r) ==
    /\ reqs[r].pc = "idle"
    /\ InputGateOpen
    /\ reqs' = [reqs EXCEPT ![r] =
                   [pc |-> "done", overlap |-> Overlaps(r), op |-> "stats",
                    resp |-> [status |-> 404, error |-> "Not found"]]]
    /\ UNCHANGED <<storage, now, written, cleared, call, handler>>

\* checkCache counting the access on the record it finds
CheckCacheGot_touches(r) ==
    /\ reqs[r].pc = "checkCache:get"
    /\ LET history == getHistory(storage, now)
           normalizedUrl == normalize(reqs[r].url)
       IN /\ reqs' = [reqs EXCEPT ![r] =
                         [reqs[r] EXCEPT !.pc = "done"] @@
                         [resp |-> Ok @@ [body |-> checkCacheResult(history,
                                                       reqs[r].url, reqs[r].content,
                                                       thresholdOrDefault(reqs[r].threshold))]]]
          /\ storage' = IF mapHas(history.records, normalizedUrl)
                        THEN [history EXCEPT
                                 !.records = mapSet(history.records, normalizedUrl,
                                     [mapGet(history.records, normalizedUrl) EXCEPT
                                         !.queryCount = @ + 1, !.lastQueried = now])]
                        ELSE storage
    /\ UNCHANGED <<now, written, cleared, call, handler>>

\* checkCache after its getHistory
CheckCacheGot(r) ==
    /\ reqs[r].pc = "checkCache:get"
    /\ reqs' = [reqs EXCEPT ![r] =
                   [reqs[r] EXCEPT !.pc = "done"] @@
                   [resp |-> Ok @@ [body |-> checkCacheResult(getHistory(storage, now),
                                                 reqs[r].url, reqs[r].content,
                                                 thresholdOrDefault(reqs[r].threshold))]]]
    /\ UNCHANGED <<storage, now, written, cleared, call, handler>>

\* getLatestRecordForUrl after its getHistory
GetLatestGot(r) ==
    /\ reqs[r].pc = "getLatest:get"
    /\ reqs' = [reqs EXCEPT ![r] =
                   [reqs[r] EXCEPT !.pc = "done"] @@
                   [resp |-> Ok @@ [body |-> getLatestRecordResult(
                                                 getHistory(storage, now), reqs[r].url)]]]
    /\ UNCHANGED <<storage, now, written, cleared, call, handler>>

\* updateLlmsTxt creating the record it does not find
UpdateLlmsTxtGot_upsert(r) ==
    /\ reqs[r].pc = "updateLlmsTxt:get"
    /\ LET history == getHistory(storage, now)
           normalizedUrl == normalize(reqs[r].url)
           existingRecord ==
               IF mapHas(history.records, normalizedUrl)
               THEN mapGet(history.records, normalizedUrl)
               ELSE storeContentRecord(reqs[r].url, "", "", SIMILARITY_THRESHOLD_DEFAULT,
                                       NoMetadata, now)
       IN reqs' = [reqs EXCEPT ![r] =
                      [reqs[r] EXCEPT !.pc = "storeRecord:get"] @@
                      [record |-> updateLlmsTxtRecord(existingRecord, reqs[r].llmsTxt,
                                                      reqs[r].metadata, now)]]
    /\ UNCHANGED <<storage, now, written, cleared, call, handler>>

\* updateLlmsTxt after its getHistory: throws, or builds the record and
\* runs storeRecord up to its getHistory
UpdateLlmsTxtGot(r) ==
    /\ reqs[r].pc = "updateLlmsTxt:get"
    /\ LET history == getHistory(storage, now)
           normalizedUrl == normalize(reqs[r].url)
       IN IF ~mapHas(history.records, normalizedUrl)
          THEN reqs' = [reqs EXCEPT ![r] =
                           [reqs[r] EXCEPT !.pc = "done"] @@
                           [resp |-> InternalError("No existing record found for URL: " \o reqs[r].url)]]
          ELSE reqs' = [reqs EXCEPT ![r] =
                           [reqs[r] EXCEPT !.pc = "storeRecord:get"] @@
                           [record |-> updateLlmsTxtRecord(
                                           mapGet(history.records, normalizedUrl),
                                           reqs[r].llmsTxt, reqs[r].metadata, now)]]
    /\ UNCHANGED <<storage, now, written, cleared, call, handler>>

\* storeRecord persisting the counters in a put of their own, before the records
StoreRecordGot_putsCountersFirst(r) ==
    /\ reqs[r].pc = "storeRecord:get"
    /\ reqs' = [reqs EXCEPT ![r] =
                   [reqs[r] EXCEPT !.pc = "storeRecord:put"] @@
                   [put |-> storeRecordApply(getHistory(storage, now), reqs[r].record, now)]]
    /\ storage' = [getHistory(storage, now) EXCEPT !.totalQueries = @ + 1,
                                                   !.lastUpdated = now]
    /\ UNCHANGED <<now, written, cleared, call, handler>>

\* storeRecord after its getHistory: the new history is handed to storage.put
StoreRecordGot(r) ==
    /\ reqs[r].pc = "storeRecord:get"
    /\ reqs' = [reqs EXCEPT ![r] =
                   [reqs[r] EXCEPT !.pc = "storeRecord:put"] @@
                   [put |-> storeRecordApply(getHistory(storage, now), reqs[r].record, now)]]
    /\ UNCHANGED <<storage, now, written, cleared, call, handler>>

\* storeRecord after its storage.put
StoreRecordPut(r) ==
    /\ reqs[r].pc = "storeRecord:put"
    /\ storage' = reqs[r].put
    /\ written' = writtenAfter(written, reqs[r], reqs[r].put)
    /\ reqs' = [reqs EXCEPT ![r] = [reqs[r] EXCEPT !.pc = "done"] @@ [resp |-> Ok]]
    /\ UNCHANGED <<now, cleared, call, handler>>

\* storeRecord when its storage.put rejects: the handler throws, nothing is stored
StoreRecordPutFails(r) ==
    /\ reqs[r].pc = "storeRecord:put"
    /\ reqs' = [reqs EXCEPT ![r] =
                   [reqs[r] EXCEPT !.pc = "done"] @@
                   [resp |-> InternalError("storage.put failed")]]
    /\ UNCHANGED <<storage, now, written, cleared, call, handler>>

\* clearAll after its storage.delete
ClearAllDeleted(r) ==
    /\ reqs[r].pc = "clearAll:delete"
    /\ storage' = Absent
    /\ written' = {}
    /\ cleared' = TRUE
    /\ reqs' = [reqs EXCEPT ![r] = [reqs[r] EXCEPT !.pc = "done"] @@ [resp |-> Ok]]
    /\ UNCHANGED <<now, call, handler>>

\* the response leaves the object
Respond(r) ==
    /\ reqs[r].pc = "done"
    /\ reqs' = [reqs EXCEPT ![r] = Idle]
    /\ UNCHANGED <<storage, now, written, cleared, call, handler>>

\* a record a caller of POST /store may send
PostedRecords ==
    {[url |-> "example.com/", contentHash |-> EMPTY_HASH, llmsTxt |-> "POSTED",
      timestamp |-> 0, lastQueried |-> 0, queryCount |-> 1,
      comparisonThreshold |-> SIMILARITY_THRESHOLD_DEFAULT, metadata |-> NoMetadata]}

WritesLeft(n) == (IF storage.present THEN storage.totalQueries ELSE 0) < n

(***************************************************************************)
(* Spec: one request at a time on one resource and its spellings           *)
(***************************************************************************)
Next ==
    \/ \E url \in Urls, c \in Contents, t \in Thresholds : FetchCheckCache(1, url, c, t)
    \/ \E url \in Urls, c \in {TestPage, Unrelated}, a \in LlmsTxts :
           WritesLeft(MaxWrites) /\ FetchStoreContent(1, url, c, a, Undefined, NoMetadata)
    \/ \E url \in Urls, a \in LlmsTxts :
           WritesLeft(MaxWrites) /\ FetchUpdateLlmsTxt(1, url, a, NoMetadata)
    \/ \E rec \in PostedRecords : WritesLeft(MaxWrites) /\ FetchStore(1, rec)
    \/ \E url \in Urls : FetchLatest(1, url)
    \/ FetchClear(1)
    \/ FetchStats(1)
    \/ CallCheckCache(1)
    \/ CallStoreContent(1)
    \/ CallUpdateLlmsTxt(1)
    \/ CallStoreRecord(1)
    \/ CheckCacheGot(1)
    \/ GetLatestGot(1)
    \/ UpdateLlmsTxtGot(1)
    \/ StoreRecordGot(1)
    \/ StoreRecordPut(1)
    \/ ClearAllDeleted(1)
    \/ Respond(1)

Spec == Init /\ [][Next]_vars

(***************************************************************************)
(* SpecMany: one request at a time on four resources while the clock runs  *)
(***************************************************************************)
NextMany ==
    \/ Tick
    \/ \E url \in ManyUrls :
           WritesLeft(MaxManyWrites)
               /\ FetchStoreContent(1, url, TestPage, "SUMMARY-1", Undefined, NoMetadata)
    \/ CallStoreContent(1)
    \/ StoreRecordGot(1)
    \/ StoreRecordPut(1)
    \/ Respond(1)

SpecMany == Init /\ [][NextMany]_vars

(***************************************************************************)
(* SpecConc: two requests in the object at once                            *)
(***************************************************************************)
ConcUrls == {"https://example.com", "https://neverstored.example"}

NextConc ==
    \E r \in Slots :
        \/ FetchCheckCache(r, "https://example.com", TestPage, Undefined)
        \/ \E url \in ConcUrls, c \in {TestPage, Unrelated} :
               WritesLeft(MaxWrites)
                   /\ FetchStoreContent(r, url, c, "SUMMARY-1", Undefined, NoMetadata)
        \/ \E url \in ConcUrls :
               WritesLeft(MaxWrites) /\ FetchUpdateLlmsTxt(r, url, "SUMMARY-2", NoMetadata)
        \/ FetchClear(r)
        \/ CallCheckCache(r)
        \/ CallStoreContent(r)
        \/ CallUpdateLlmsTxt(r)
        \/ CheckCacheGot(r)
        \/ UpdateLlmsTxtGot(r)
        \/ StoreRecordGot(r)
        \/ StoreRecordPut(r)
        \/ ClearAllDeleted(r)
        \/ Respond(r)

SpecConc == Init /\ [][NextConc]_vars

(***************************************************************************)
(* SpecWrite: one request at a time on one resource, while the clock runs  *)
(* and a put may fail                                                      *)
(***************************************************************************)
NextWrite ==
    \/ Tick
    \/ \E c \in {TestPage, Unrelated} :
           WritesLeft(MaxWrites)
               /\ FetchStoreContent(1, "https://example.com", c, "SUMMARY-1",
                                    Undefined, NoMetadata)
    \/ \E url \in {"example.com", "https://neverstored.example"} :
           WritesLeft(MaxWrites) /\ FetchUpdateLlmsTxt(1, url, "SUMMARY-2", NoMetadata)
    \/ CallStoreContent(1)
    \/ CallUpdateLlmsTxt(1)
    \/ UpdateLlmsTxtGot(1)
    \/ StoreRecordGot(1)
    \/ StoreRecordPut(1)
    \/ StoreRecordPutFails(1)
    \/ Respond(1)

SpecWrite == Init /\ [][NextWrite]_vars

(***************************************************************************)
(* SpecMeta: one request at a time on one resource and on the empty        *)
(* identifier, with metadata and thresholds of the caller's                *)
(***************************************************************************)
MetaUrls == {"https://example.com", ""}

\* the metadata a caller may send: none, a key of its own, keys the store also sets
Metadatas == {NoMetadata,
              [source |-> "crawler"],
              [processingTime |-> 99, contentLength |-> 7]}

NextMeta ==
    \/ \E url \in MetaUrls, t \in {Undefined, Frac(1, 1)} :
           FetchCheckCache(1, url, BestPage, t)
    \/ \E url \in MetaUrls, t \in {Undefined, Frac(1, 2)}, m \in Metadatas :
           WritesLeft(MaxWrites) /\ FetchStoreContent(1, url, TestPage, "SUMMARY-1", t, m)
    \/ \E url \in MetaUrls, m \in Metadatas :
           WritesLeft(MaxWrites) /\ FetchUpdateLlmsTxt(1, url, "SUMMARY-2", m)
    \/ CallCheckCache(1)
    \/ CallStoreContent(1)
    \/ CallUpdateLlmsTxt(1)
    \/ CheckCacheGot(1)
    \/ UpdateLlmsTxtGot(1)
    \/ StoreRecordGot(1)
    \/ StoreRecordPut(1)
    \/ Respond(1)

SpecMeta == Init /\ [][NextMeta]_vars

(***************************************************************************)
(* SpecScenario: contents stored and checked at the threshold 0.8          *)
(***************************************************************************)
ScenarioUrls == {"https://example.com", "https://neverstored.example"}

NextScenario ==
    \/ Tick
    \/ \E url \in {"example.com"} \cup ScenarioUrls, c \in Contents :
           FetchCheckCache(1, url, c, Frac(8, 10))
    \/ \E url \in ScenarioUrls, c \in {TestPage, Unrelated} :
           WritesLeft(MaxWrites)
               /\ FetchStoreContent(1, url, c, "SUMMARY-1", Frac(8, 10), NoMetadata)
    \/ CallCheckCache(1)
    \/ CallStoreContent(1)
    \/ CheckCacheGot(1)
    \/ StoreRecordGot(1)
    \/ StoreRecordPut(1)
    \/ Respond(1)

SpecScenario == Init /\ [][NextScenario]_vars

(***************************************************************************)
(* SpecCount: writes of every kind on four resources, with clearAll, while *)
(* the clock runs and a put may fail                                       *)
(***************************************************************************)
NextCount ==
    \/ Tick
    \/ \E url \in ManyUrls :
           WritesLeft(MaxManyWrites)
               /\ FetchStoreContent(1, url, TestPage, "SUMMARY-1", Undefined, NoMetadata)
    \/ WritesLeft(MaxManyWrites) /\ FetchUpdateLlmsTxt(1, "a.example", "SUMMARY-2", NoMetadata)
    \/ \E rec \in PostedRecords : WritesLeft(MaxManyWrites) /\ FetchStore(1, rec)
    \/ FetchClear(1)
    \/ CallStoreContent(1)
    \/ CallUpdateLlmsTxt(1)
    \/ CallStoreRecord(1)
    \/ UpdateLlmsTxtGot(1)
    \/ StoreRecordGot(1)
    \/ StoreRecordPut(1)
    \/ StoreRecordPutFails(1)
    \/ ClearAllDeleted(1)
    \/ Respond(1)

SpecCount == Init /\ [][NextCount]_vars

(***************************************************************************)
(* SpecPost: records sent to POST /store as the caller spells them, next   *)
(* to storeContent, and lookups by the stored keys                         *)
(***************************************************************************)
\* records a caller of POST /store may send: url taken as it stands
RawRecords ==
    {[rec EXCEPT !.url = url] : rec \in PostedRecords,
                                url \in {"example.com/", "HTTP://WWW.Example.com/"}}

NextPost ==
    \/ Tick
    \/ \E rec \in RawRecords : WritesLeft(MaxWrites) /\ FetchStore(1, rec)
    \/ WritesLeft(MaxWrites)
           /\ FetchStoreContent(1, "https://example.com", TestPage, "SUMMARY-1",
                                Undefined, NoMetadata)
    \/ \E url \in {"example.com/", "HTTP://WWW.Example.com/"} : FetchLatest(1, url)
    \/ CallStoreContent(1)
    \/ CallStoreRecord(1)
    \/ GetLatestGot(1)
    \/ StoreRecordGot(1)
    \/ StoreRecordPut(1)
    \/ Respond(1)

SpecPost == Init /\ [][NextPost]_vars

(***************************************************************************)
(* SpecShort: contents shorter than a k-gram stored and checked            *)
(***************************************************************************)
NextShort ==
    \/ \E c \in ShortContents \cup {TestPage}, t \in Thresholds :
           FetchCheckCache(1, "example.com", c, t)
    \/ \E c \in ShortContents \cup {TestPage} :
           WritesLeft(MaxWrites)
               /\ FetchStoreContent(1, "https://example.com", c, "SUMMARY-1",
                                    Undefined, NoMetadata)
    \/ CallCheckCache(1)
    \/ CallStoreContent(1)
    \/ CheckCacheGot(1)
    \/ StoreRecordGot(1)
    \/ StoreRecordPut(1)
    \/ Respond(1)

SpecShort == Init /\ [][NextShort]_vars

(***************************************************************************)
(* The generate route: POST /api/generate serves its urls one after the    *)
(* other: fetch the page, checkCache, and on a miss generateText and       *)
(* storeContent.  It reaches the object through UrlMetaStoreClient, slot 1.*)
(***************************************************************************)
MaxPosts == 2

\* the urls of a request, after validateUrls
UrlArrays == {<<"https://example.com">>,
              <<"HTTP://WWW.Example.com/", "https://neverstored.example">>}

\* aiResult.response: a summary, or an empty text
Responses == {"SUMMARY-1", ""}

HandlerUntouched == UNCHANGED <<storage, now, reqs, written, cleared, call>>

\* the loop goes on to the next url; after the last one the response is built
nextUrl(h) ==
    IF h.i < Len(h.urls)
    THEN [pc |-> "fetch", posts |-> h.posts, urls |-> h.urls, i |-> h.i + 1,
          hasStore |-> h.hasStore]
    ELSE [pc |-> "respond", posts |-> h.posts]

\* POST: the body is parsed and validated, the loop starts at the first url
HandlerPost(urls, hasStore) ==
    /\ handler.pc = "idle"
    /\ handler.posts < MaxPosts
    /\ handler' = [pc |-> "fetch", posts |-> handler.posts + 1, urls |-> urls, i |-> 1,
                   hasStore |-> hasStore]
    /\ HandlerUntouched

\* fetch(url) fails, answers not ok, or its text cannot be read: continue
HandlerFetchFailed ==
    /\ handler.pc = "fetch"
    /\ handler' = nextUrl(handler)
    /\ HandlerUntouched

\* the page is fetched and sanitized: plainText
HandlerFetched(plainText) ==
    /\ handler.pc = "fetch"
    /\ handler' = [handler EXCEPT !.pc = IF handler.hasStore THEN "checkCache" ELSE "generate"]
                       @@ [content |-> plainText]
    /\ HandlerUntouched

\* dbClient.checkCache(url, plainText, threshold): the request enters the object
HandlerCheckCache ==
    /\ handler.pc = "checkCache"
    /\ FetchCheckCache(1, handler.urls[handler.i], handler.content, SIMILARITY_THRESHOLD_DEFAULT)

\* (`checked` is a history field: the content the checkCache was called with)
\* the cache result is a hit for the route
isHit(cacheResult) ==
    cacheResult.cached /\ "llmsTxt" \in DOMAIN cacheResult /\ cacheResult.llmsTxt # ""

\* the route taking every cached result for a hit, whatever its llmsTxt
HandlerCheckReturned_cachedOnly ==
    /\ handler.pc = "checkCache"
    /\ reqs[1].pc = "done" /\ reqs[1].op = "checkCache"
    /\ LET ok == reqs[1].resp.status = 200
           hit == ok /\ reqs[1].resp.body.cached
       IN handler' = IF hit
                     THEN nextUrl(handler)
                     ELSE [handler EXCEPT !.pc = "generate"]
                              @@ [checked |-> reqs[1].content]
    /\ reqs' = [reqs EXCEPT ![1] = Idle]
    /\ UNCHANGED <<storage, now, written, cleared, call>>

\* checkCache returns or throws (response not ok): a hit ends the url, anything
\* else goes on to generateText
HandlerCheckReturned ==
    /\ handler.pc = "checkCache"
    /\ reqs[1].pc = "done" /\ reqs[1].op = "checkCache"
    /\ LET ok == reqs[1].resp.status = 200
           hit == ok /\ isHit(reqs[1].resp.body)
       IN handler' = IF hit
                     THEN nextUrl(handler)
                     ELSE [handler EXCEPT !.pc = "generate"]
                              @@ [checked |-> reqs[1].content]
    /\ reqs' = [reqs EXCEPT ![1] = Idle]
    /\ UNCHANGED <<storage, now, written, cleared, call>>

\* the stub's fetch rejects before the object is reached: caught, generate
HandlerCheckThrows ==
    /\ handler.pc = "checkCache"
    /\ reqs[1].pc = "idle"
    /\ handler' = [handler EXCEPT !.pc = "generate"] @@ [checked |-> handler.content]
    /\ HandlerUntouched

\* generateText returns {error}: nothing is stored for this url
HandlerGenerateFailed ==
    /\ handler.pc = "generate"
    /\ handler' = nextUrl(handler)
    /\ HandlerUntouched

\* generateText returns a response
HandlerGenerated(response) ==
    /\ handler.pc = "generate"
    /\ handler' = IF handler.hasStore
                  THEN [handler EXCEPT !.pc = "storeContent"] @@ [response |-> response]
                  ELSE nextUrl(handler)
    /\ HandlerUntouched

\* dbClient.storeContent(url, plainText, aiResult.response, threshold, metadata)
HandlerStoreContent ==
    /\ handler.pc = "storeContent"
    /\ FetchStoreContent(1, handler.urls[handler.i], handler.content, handler.response,
                         SIMILARITY_THRESHOLD_DEFAULT,
                         [contentLength |-> Len(handler.content), processingTime |-> now])

\* storeContent returns or throws: either way the loop goes on
HandlerStoreReturned ==
    /\ handler.pc = "storeContent"
    /\ reqs[1].pc = "done" /\ reqs[1].op = "storeContent"
    /\ handler' = nextUrl(handler)
    /\ reqs' = [reqs EXCEPT ![1] = Idle]
    /\ UNCHANGED <<storage, now, written, cleared, call>>

\* the response of the route leaves
HandlerRespond ==
    /\ handler.pc = "respond"
    /\ handler' = [pc |-> "idle", posts |-> handler.posts]
    /\ HandlerUntouched

NextGenerate ==
    \/ \E urls \in UrlArrays, hasStore \in BOOLEAN : HandlerPost(urls, hasStore)
    \/ HandlerFetchFailed
    \/ \E plainText \in Contents : HandlerFetched(plainText)
    \/ HandlerCheckCache
    \/ HandlerCheckReturned
    \/ HandlerCheckThrows
    \/ HandlerGenerateFailed
    \/ \E response \in Responses : HandlerGenerated(response)
    \/ HandlerStoreContent
    \/ HandlerStoreReturned
    \/ HandlerRespond
    \/ CallCheckCache(1)
    \/ CheckCacheGot(1)
    \/ CallStoreContent(1)
    \/ StoreRecordGot(1)
    \/ StoreRecordPut(1)
    \/ StoreRecordPutFails(1)

SpecGenerate == Init /\ [][NextGenerate]_vars

(***************************************************************************)
(* SpecNorm: the static methods of UrlNormalizer, called on urls put       *)
(* together from the pieces normalize looks for                            *)
(***************************************************************************)
UrlParts == {"http://", "https://", "www.", " ", "/", "a.com", "B"}

MaxUrlParts == 3
MaxIds == 3

\* the sequences over S of length at most n
SeqsUpTo(S, n) == UNION {[1..k -> S] : k \in 0..n}

UrlInputs == {join(q, "") : q \in SeqsUpTo(UrlParts, MaxUrlParts)} \cup {Undefined}

ListUrls == {"b.com", "https://a.com", "", " ", "www.A.com/", "a.com/c"}

UrlLists == SeqsUpTo(ListUrls, MaxIds)

StoreUntouched == UNCHANGED <<storage, now, reqs, written, cleared, handler>>

InitNorm ==
    /\ storage = Absent
    /\ now = 0
    /\ reqs = [r \in Slots |-> Idle]
    /\ written = {}
    /\ cleared = FALSE
    /\ handler = NoPost
    /\ call \in {[fn |-> "args", urls |-> <<u>>] : u \in UrlInputs}
                 \cup {[fn |-> "args", urls |-> l] : l \in UrlLists}

Normalize ==
    /\ call.fn = "args" /\ Len(call.urls) = 1
    /\ call' = [fn |-> "normalize", url |-> call.urls[1],
                result |-> UrlNormalizer_normalize(call.urls[1])]
    /\ StoreUntouched

AreEquivalent ==
    /\ call.fn = "args" /\ Len(call.urls) = 2
    /\ call' = [fn |-> "areEquivalent", url1 |-> call.urls[1], url2 |-> call.urls[2],
                result |-> (UrlNormalizer_normalize(call.urls[1])
                                = UrlNormalizer_normalize(call.urls[2]))]
    /\ StoreUntouched

NormalizeArray ==
    /\ call.fn = "args"
    /\ call' = [fn |-> "normalizeArray", urls |-> call.urls,
                result |-> normalizeArray(call.urls)]
    /\ StoreUntouched

GenerateCacheKey ==
    /\ call.fn = "args"
    /\ call' = [fn |-> "generateCacheKey", urls |-> call.urls,
                result |-> generateCacheKey(call.urls)]
    /\ StoreUntouched

NextNorm == Normalize \/ AreEquivalent \/ NormalizeArray \/ GenerateCacheKey

SpecNorm == InitNorm /\ [][NextNorm]_vars

(***************************************************************************)
(* SpecHash: the static methods of SimHash, called on texts and on hashes  *)
(***************************************************************************)
WhitespaceChars == {" ", "\t", "\n"}

MaxSpaces == 3

\* texts of letters, of punctuation only, shorter than a k-gram, with a k-gram twice
SampleTexts == {"abcdef", "aaaaaaa", "Hello", "Hello, World!", "ab cd", "!?.",
                "abcde abcde", "  Hello   World  "}

Texts == {join(q, "") : q \in SeqsUpTo(WhitespaceChars, MaxSpaces)}
             \cup SampleTexts \cup {Undefined}

Hashes == {EMPTY_HASH, "ffffffffffffffff", "05f1269205f12692", "04f1398a04f1398a",
           "05f4a69205f4a692", "8000000000000001", "00000000ffffffff",
           "0123456789abcdef"}

InitHash ==
    /\ storage = Absent
    /\ now = 0
    /\ reqs = [r \in Slots |-> Idle]
    /\ written = {}
    /\ cleared = FALSE
    /\ handler = NoPost
    /\ call \in {[fn |-> "args", content |-> t] : t \in Texts}
                 \cup {[fn |-> "args", hash1 |-> a, hash2 |-> b] : a, b \in Hashes}

Hash ==
    /\ call.fn = "args" /\ "content" \in DOMAIN call
    /\ call' = [fn |-> "hash", content |-> call.content,
                result |-> SimHash_hash(call.content)]
    /\ StoreUntouched

Similarity ==
    /\ call.fn = "args" /\ "hash1" \in DOMAIN call
    /\ call' = [fn |-> "similarity", hash1 |-> call.hash1, hash2 |-> call.hash2,
                result |-> similarity(call.hash1, call.hash2)]
    /\ StoreUntouched

\* the hash of a text compared with the hash of the same text
SimilarityOfHash ==
    /\ call.fn = "hash"
    /\ call' = [fn |-> "similarity", hash1 |-> call.result,
                hash2 |-> SimHash_hash(call.content),
                result |-> similarity(call.result, SimHash_hash(call.content))]
    /\ StoreUntouched

NextHash == Hash \/ Similarity \/ SimilarityOfHash

SpecHash == InitHash /\ [][NextHash]_vars

(***************************************************************************)
(* SpecPair: SimHash on two texts, and similarity on their hashes          *)
(***************************************************************************)
PairTexts == SampleTexts \cup Contents

\* hash of the texts above, computed once
PairHash == [content \in PairTexts |-> SimHash_hash(content)]

InitPair ==
    /\ storage = Absent
    /\ now = 0
    /\ reqs = [r \in Slots |-> Idle]
    /\ written = {}
    /\ cleared = FALSE
    /\ handler = NoPost
    /\ call \in {[fn |-> "args", content1 |-> a, content2 |-> b] : a, b \in PairTexts}

\* SimHash.hash(content1) and SimHash.hash(content2) return
HashPair ==
    /\ call.fn = "args"
    /\ call' = [fn |-> "hash", content1 |-> call.content1, content2 |-> call.content2,
                hash1 |-> PairHash[call.content1], hash2 |-> PairHash[call.content2]]
    /\ StoreUntouched

\* SimHash.similarity on the two hashes returns
SimilarityOfPair ==
    /\ call.fn = "hash"
    /\ call' = [call EXCEPT !.fn = "similarity"] @@
               [result |-> similarity(call.hash1, call.hash2)]
    /\ StoreUntouched

NextPair == HashPair \/ SimilarityOfPair

SpecPair == InitPair /\ [][NextPair]_vars

(***************************************************************************)
(* Properties                                                              *)
(***************************************************************************)
\* request r has been answered on route op; the response has not left yet
Answered(r, op) == reqs[r].pc = "done" /\ reqs[r].op = op

\* the threshold a checkCache request runs with
thresholdOf(req) == IF req.threshold = Undefined THEN Frac(8, 10) ELSE req.threshold

InUnitInterval(t) == FracGE(t, Frac(0, 1)) /\ FracGE(Frac(1, 1), t)

\* the spellings of one resource among Urls
ExampleSpellings == {"https://example.com", "HTTP://WWW.Example.com/", "example.com"}

(* C1: a checkCache that finds no record under normalize(url) answers
   cached = false and carries no similarity; one that finds a record answers
   cached = true exactly when similarity(record.contentHash, hash(content)) is
   at least the threshold (0.8 when the request carries none), and carries an
   llmsTxt, the record's, exactly when cached = true. *)
C1_CheckCacheVerdict ==
    [][\A r \in Slots :
          (reqs[r].pc = "checkCache:get" /\ reqs'[r].pc = "done") =>
              LET records == storage.records
                  key == normalize(reqs[r].url)
                  body == reqs'[r].resp.body
              IN IF ~mapHas(records, key)
                 THEN /\ body.cached = FALSE
                      /\ "similarity" \notin DOMAIN body
                      /\ "llmsTxt" \notin DOMAIN body
                 ELSE LET record == mapGet(records, key)
                          sim == similarity(record.contentHash, hash(reqs[r].content))
                      IN /\ body.cached = FracGE(sim, thresholdOf(reqs[r]))
                         /\ FracEq(body.similarity, sim)
                         /\ ("llmsTxt" \in DOMAIN body) = body.cached
                         /\ body.cached => body.llmsTxt = record.llmsTxt
      ]_vars

\* a near-duplicate is served at the default threshold: a hit below similarity 1
C1_Witness ==
    \E r \in Slots :
        /\ Answered(r, "checkCache")
        /\ reqs[r].threshold = Undefined
        /\ reqs[r].resp.body.cached
        /\ ~FracEq(reqs[r].resp.body.similarity, Frac(1, 1))
        /\ mapHas(storage.records, normalize(reqs[r].url))

(* C2: while the record a storeContent(url, content, llmsTxt) left under its
   key is the last write there, a checkCache of the same content under any
   spelling of the same resource (equal under normalize: scheme, www. prefix,
   letter case, trailing slash) and any threshold in [0,1] answers
   cached = true with that llmsTxt and similarity 1. *)
C2_StoredContentIsServed ==
    \A r \in Slots :
        Answered(r, "checkCache") =>
            \A e \in written :
                (/\ ~e.updated
                 /\ e.content = reqs[r].content
                 /\ \/ areEquivalent(reqs[r].url, e.url)
                    \/ {reqs[r].url, e.url} \subseteq ExampleSpellings
                 /\ InUnitInterval(thresholdOf(reqs[r])))
                => /\ reqs[r].resp.body.cached
                   /\ reqs[r].resp.body.llmsTxt = e.llmsTxt
                   /\ FracEq(reqs[r].resp.body.similarity, Frac(1, 1))

\* stored as https://example.com, checked as HTTP://WWW.Example.com/ at threshold 1
C2_Witness ==
    \E r \in Slots, e \in written :
        /\ Answered(r, "checkCache")
        /\ reqs[r].url = "HTTP://WWW.Example.com/"
        /\ e.url = "https://example.com"
        /\ ~e.updated
        /\ e.content = reqs[r].content
        /\ thresholdOf(reqs[r]) = Frac(1, 1)
        /\ reqs[r].resp.body.cached

(* C3: once storeContent(url, content, a1) and then updateLlmsTxt(url2, a2)
   on the same key have completed, a checkCache of that content on that key
   with a threshold in [0,1] answers cached = true with llmsTxt a2. *)
C3_UpdatedArtifactIsServed ==
    \A r \in Slots :
        Answered(r, "checkCache") =>
            \A e \in written :
                (/\ e.updated
                 /\ e.content = reqs[r].content
                 /\ e.key = normalize(reqs[r].url)
                 /\ InUnitInterval(thresholdOf(reqs[r])))
                => /\ reqs[r].resp.body.cached
                   /\ reqs[r].resp.body.llmsTxt = e.llmsTxt

\* SUMMARY-1 was stored, SUMMARY-2 put in its place, and checkCache serves SUMMARY-2
C3_Witness ==
    \E r \in Slots, e \in written :
        /\ Answered(r, "checkCache")
        /\ e.updated
        /\ e.storedLlmsTxt = "SUMMARY-1"
        /\ e.llmsTxt = "SUMMARY-2"
        /\ e.content = reqs[r].content
        /\ e.key = normalize(reqs[r].url)
        /\ reqs[r].resp.body.cached
        /\ reqs[r].resp.body.llmsTxt = "SUMMARY-2"

(* C4: an updateLlmsTxt that finds no record under its key ends there with
   the error "No existing record found for URL", and the stored history is
   what it was: no record created, none changed, totalQueries and lastUpdated
   as before. *)
C4_UpdateOfMissingKeyFails ==
    [][\A r \in Slots :
          (/\ reqs[r].pc = "updateLlmsTxt:get"
           /\ reqs'[r] # reqs[r]
           /\ ~mapHas(storage.records, normalize(reqs[r].url)))
          => /\ reqs'[r].pc = "done"
             /\ reqs'[r].resp.status = 500
             /\ reqs'[r].resp.details =
                    "No existing record found for URL: " \o reqs[r].url
             /\ storage' = storage
      ]_vars

\* the update of a key nobody stored was refused while another key is resident
C4_Witness ==
    \E r \in Slots :
        /\ Answered(r, "updateLlmsTxt")
        /\ reqs[r].resp.status = 500
        /\ ~mapHas(storage.records, normalize(reqs[r].url))
        /\ storage.present /\ Len(storage.records) > 0

WriteOps == {"storeContent", "updateLlmsTxt", "storeRecord"}

\* the key a write request stores under
keyOf(req) == IF req.op = "storeRecord" THEN req.record.url ELSE normalize(req.url)

(* C5: with storeContent, updateLlmsTxt and checkCache requests in the object
   at once, every key holds what the completed writes produce when taken one
   after another in the order they completed: the record's contentHash and
   llmsTxt are those of that serial order (never the contentHash from before
   a storeContent with the llmsTxt of an update that overlapped it), its
   queryCount counts every completed write, and no written key is missing. *)
C5_SameKeySerializable ==
    /\ \A e \in written :
           /\ mapHas(storage.records, e.key)
           /\ LET record == mapGet(storage.records, e.key)
              IN /\ record.contentHash = e.contentHash
                 /\ record.llmsTxt = e.llmsTxt
                 /\ record.queryCount = e.writes
    /\ \A i \in 1..Len(storage.records) :
           \E e \in written : e.key = storage.records[i].url

\* a storeContent and an updateLlmsTxt on one key were in the object together
\* and both completed
C5_Witness ==
    \E r \in Slots, q \in Slots :
        /\ Answered(r, "storeContent") /\ reqs[r].resp.status = 200
        /\ Answered(q, "updateLlmsTxt") /\ reqs[q].resp.status = 200
        /\ keyOf(reqs[r]) = keyOf(reqs[q])
        /\ reqs[r].overlap \/ reqs[q].overlap
        /\ \E e \in written : e.key = keyOf(reqs[r]) /\ e.writes >= 2

(* C6: when a write completes, the record of its key reflects it, and the
   record of every other key is exactly what it was, unless the write grew a
   full map (capacity eviction); so two overlapping writes on different keys
   both take effect. *)
C6_OtherKeysUntouched ==
    [][\A r \in Slots :
          (reqs[r].pc = "storeRecord:put" /\ reqs'[r].pc = "done") =>
              LET before == storage.records
                  after == storage'.records
                  key == keyOf(reqs[r])
                  evicting == ~mapHas(before, key) /\ Len(before) >= MAX_RECORDS
              IN /\ reqs'[r].resp.status = 200
                 /\ ~evicting =>
                        /\ mapHas(after, key)
                        /\ mapGet(after, key).llmsTxt = reqs[r].llmsTxt
                        /\ \A i \in 1..Len(before) :
                               before[i].url # key =>
                                   /\ mapHas(after, before[i].url)
                                   /\ mapGet(after, before[i].url) = before[i]
      ]_vars

\* two writes on different keys were in the object together, both completed,
\* and both records are resident
C6_Witness ==
    \E r \in Slots, q \in Slots :
        /\ reqs[r].pc = "done" /\ reqs[r].op \in WriteOps /\ reqs[r].resp.status = 200
        /\ reqs[q].pc = "done" /\ reqs[q].op \in WriteOps /\ reqs[q].resp.status = 200
        /\ keyOf(reqs[r]) # keyOf(reqs[q])
        /\ reqs[r].overlap \/ reqs[q].overlap
        /\ mapHas(storage.records, keyOf(reqs[r]))
        /\ mapHas(storage.records, keyOf(reqs[q]))

(* C7: once clearAll has completed, and as long as no storeContent or
   updateLlmsTxt is called afterwards, nothing is stored: a write that was in
   the object when clearAll ran cannot put back what it read before. *)
C7_ClearedStaysEmpty == cleared => ~storage.present

\* clearAll completed while a storeContent was in the object, its body not yet read
C7_Witness ==
    \E r \in Slots, q \in Slots :
        /\ cleared
        /\ Answered(q, "clearAll") /\ reqs[q].overlap
        /\ reqs[r].pc = "json" /\ reqs[r].op = "storeContent"

(* C8: whatever stores have run, the stored map never holds more than
   MAX_RECORDS records. *)
C8_AtMostMaxRecords == Len(storage.records) <= MAX_RECORDS

\* more distinct keys were stored than the map holds, and the map is full
C8_Witness ==
    /\ Answered(1, "storeContent")
    /\ Len(storage.records) = MAX_RECORDS
    /\ storage.totalQueries > MAX_RECORDS
    /\ \A i \in 1..Len(storage.records) : storage.records[i].queryCount = 1

(* C9: when a write completes, the keys it leaves are among the old keys and
   its own. If those are more than MAX_RECORDS, exactly MAX_RECORDS are kept
   and every discarded record has lastQueried at most that of every kept one;
   when one old record is strictly older than all the others, it is the one
   discarded. If they are not more than MAX_RECORDS, or the written key was
   already resident, nothing is discarded. *)
C9_EvictsLeastRecentlyQueried ==
    [][\A r \in Slots :
          (reqs[r].pc = "storeRecord:put" /\ reqs'[r].pc = "done") =>
              LET before == storage.records
                  key == keyOf(reqs[r])
                  all == mapKeys(before) \cup {key}
                  kept == mapKeys(storage'.records)
                  discarded == all \ kept
                  lastQueried(k) == IF k = key THEN reqs[r].put.lastUpdated
                                    ELSE mapGet(before, k).lastQueried
              IN /\ kept \subseteq all
                 /\ Len(storage'.records) = Cardinality(kept)
                 /\ \A k \in kept \ {key} :
                        mapGet(storage'.records, k) = mapGet(before, k)
                 /\ IF Cardinality(all) > MAX_RECORDS
                    THEN /\ Cardinality(kept) = MAX_RECORDS
                         /\ \A d \in discarded, k \in kept :
                                lastQueried(d) <= lastQueried(k)
                         /\ \A f \in all :
                                (\A k \in all \ {f} : lastQueried(f) < lastQueried(k))
                                    => discarded = {f}
                    ELSE discarded = {}
                 /\ mapHas(before, key) => discarded = {}
      ]_vars

\* a store of a new key into a full map is about to be persisted: the record
\* it drops was queried strictly before every record it keeps
C9_Witness ==
    /\ reqs[1].pc = "storeRecord:put"
    /\ Len(storage.records) = MAX_RECORDS
    /\ ~mapHas(storage.records, keyOf(reqs[1]))
    /\ mapHas(reqs[1].put.records, keyOf(reqs[1]))
    /\ \E i \in 1..Len(storage.records) :
           /\ ~mapHas(reqs[1].put.records, storage.records[i].url)
           /\ \A j \in 1..Len(reqs[1].put.records) :
                  storage.records[i].lastQueried < reqs[1].put.records[j].lastQueried

\* the steps that complete a write of one of the ops on key k
WriteCompletes(ops, k) ==
    \E r \in Slots :
        /\ reqs[r].pc = "storeRecord:put" /\ reqs'[r].pc = "done"
        /\ reqs[r].op \in ops
        /\ keyOf(reqs[r]) = k

\* key k is resident before and after the step, with different contentHash
FingerprintChanges(k) ==
    /\ mapHas(storage.records, k) /\ mapHas(storage'.records, k)
    /\ mapGet(storage'.records, k).contentHash # mapGet(storage.records, k).contentHash

(* C10: the contentHash of a resident record differs across a step only if
   the step completes a storeContent on its key, or a POST /store of a record
   for its key; no step of updateLlmsTxt, checkCache, getLatest or stats
   changes it. *)
C10_FingerprintSetByStoreOnly ==
    [][\A k \in mapKeys(storage.records) :
          FingerprintChanges(k) => WriteCompletes({"storeContent", "storeRecord"}, k)
      ]_vars

\* a POST /store is about to replace the contentHash of a resident record
C10_Witness ==
    \E r \in Slots :
        /\ reqs[r].pc = "storeRecord:put" /\ reqs[r].op = "storeRecord"
        /\ mapHas(storage.records, keyOf(reqs[r]))
        /\ mapGet(storage.records, keyOf(reqs[r])).contentHash
               # mapGet(reqs[r].put.records, keyOf(reqs[r])).contentHash

(* C10 as stated: the contentHash of a resident record differs across a step
   only if the step is a storeContent on its key. *)
C10_AsStated ==
    [][\A k \in mapKeys(storage.records) :
          FingerprintChanges(k) => WriteCompletes({"storeContent"}, k)
      ]_vars

ReadOps == {"checkCache", "getLatest"}

\* request r takes the step, and it is a request of one of the ops
StepOf(r, ops) ==
    /\ reqs'[r] # reqs[r]
    /\ (IF reqs[r].pc = "idle" THEN reqs'[r] ELSE reqs[r]).op \in ops

(* C11: no step of a checkCache (hit or miss) or of a getLatest changes the
   stored history: records (contentHash, llmsTxt, queryCount, lastQueried,
   metadata), totalQueries and lastUpdated are what they were. *)
C11_ReadsChangeNothing ==
    [][\A r \in Slots : StepOf(r, ReadOps) => storage' = storage]_vars

\* a checkCache hit was answered on a resident record
C11_Witness ==
    \E r \in Slots :
        /\ Answered(r, "checkCache")
        /\ reqs[r].resp.body.cached
        /\ mapHas(storage.records, normalize(reqs[r].url))

\* request r completes its write in this step
PutReturns(r, op) ==
    /\ reqs[r].pc = "storeRecord:put" /\ reqs[r].op = op
    /\ reqs'[r].pc = "done" /\ reqs'[r].resp.status = 200

(* C12: when a storeContent completes, the record under its key has
   contentHash = hash(content) and the llmsTxt of the call, and lastQueried
   is a time read during the call; its queryCount is 1 if the key had no
   record, and the old queryCount + 1 if it had one. *)
C12_StoreContentWrites ==
    [][\A r \in Slots :
          PutReturns(r, "storeContent") =>
              LET key == normalize(reqs[r].url)
                  record == mapGet(storage'.records, key)
              IN /\ mapHas(storage'.records, key)
                 /\ record.contentHash = hash(reqs[r].content)
                 /\ record.llmsTxt = reqs[r].llmsTxt
                 /\ reqs[r].record.timestamp <= record.lastQueried
                 /\ record.lastQueried <= now
                 /\ record.queryCount =
                        IF mapHas(storage.records, key)
                        THEN mapGet(storage.records, key).queryCount + 1
                        ELSE 1
      ]_vars

\* a second storeContent on the key has completed, with other content, after
\* the clock moved
C12_Witness ==
    \E e \in written :
        /\ Answered(1, "storeContent") /\ reqs[1].resp.status = 200
        /\ e.key = normalize(reqs[1].url)
        /\ e.writes = 2
        /\ mapGet(storage.records, e.key).queryCount = 2
        /\ mapGet(storage.records, e.key).contentHash = hash(Unrelated)
        /\ mapGet(storage.records, e.key).lastQueried > 0

(* C14: when an updateLlmsTxt completes, the queryCount of its record is the
   old queryCount + 1, totalQueries is the old totalQueries + 1, and
   lastQueried is a time read during the call. *)
C14_UpdateCountsOnce ==
    [][\A r \in Slots :
          PutReturns(r, "updateLlmsTxt") =>
              LET key == normalize(reqs[r].url)
                  record == mapGet(storage'.records, key)
              IN /\ mapHas(storage.records, key) /\ mapHas(storage'.records, key)
                 /\ record.queryCount = mapGet(storage.records, key).queryCount + 1
                 /\ storage'.totalQueries = storage.totalQueries + 1
                 /\ reqs[r].record.lastQueried <= record.lastQueried
                 /\ record.lastQueried <= now
      ]_vars

\* an updateLlmsTxt has completed after the clock moved: the record was
\* written twice and counts two
C14_Witness ==
    /\ Answered(1, "updateLlmsTxt") /\ reqs[1].resp.status = 200
    /\ mapGet(storage.records, normalize(reqs[1].url)).queryCount = 2
    /\ mapGet(storage.records, normalize(reqs[1].url)).lastQueried > 0
    /\ storage.totalQueries = 2

(* C16: when the storage.put of a storeContent or updateLlmsTxt fails, the
   request is answered with an error and the stored history is still the one
   the write started from: applying the write to it gives exactly the history
   the failed put was handed, so no record, counter or timestamp has moved. *)
C16_FailedPutStoresNothing ==
    \A r \in Slots :
        (/\ reqs[r].pc = "done"
         /\ reqs[r].op \in {"storeContent", "updateLlmsTxt"}
         /\ "put" \in DOMAIN reqs[r]
         /\ reqs[r].resp.status # 200)
        => /\ reqs[r].resp.status = 500
           /\ reqs[r].put = storeRecordApply(
                                getHistory(storage, reqs[r].put.lastUpdated),
                                reqs[r].record, reqs[r].put.lastUpdated)

\* the put of an updateLlmsTxt on a resident record failed
C16_Witness ==
    /\ Answered(1, "updateLlmsTxt")
    /\ reqs[1].resp.status = 500
    /\ "put" \in DOMAIN reqs[1]
    /\ mapHas(storage.records, normalize(reqs[1].url))
    /\ mapGet(storage.records, normalize(reqs[1].url)).llmsTxt = "SUMMARY-1"

\* the metadata keys storeContent sets itself
StoreSetKeys == {"contentLength", "processingTime", "originalUrl"}

(* C13: when a storeContent completes on a key that had a record, every
   metadata key of the call holds the value of the call, and every metadata
   key the record had that neither the call nor storeContent itself sets is
   still there with its old value. *)
C13_StoreContentMergesMetadata ==
    [][\A r \in Slots :
          (PutReturns(r, "storeContent")
               /\ mapHas(storage.records, normalize(reqs[r].url))) =>
              LET key == normalize(reqs[r].url)
                  old == mapGet(storage.records, key).metadata
                  new == mapGet(storage'.records, key).metadata
                  supplied == reqs[r].metadata
              IN /\ \A k \in DOMAIN supplied :
                        k \in DOMAIN new /\ new[k] = supplied[k]
                 /\ \A k \in (DOMAIN old) \ ((DOMAIN supplied) \cup StoreSetKeys) :
                        k \in DOMAIN new /\ new[k] = old[k]
      ]_vars

(* C15: when an updateLlmsTxt completes, every metadata key of the call,
   processingTime included, holds the value of the call, and every other key
   the record had keeps its old value (processingTime aside, which the
   update stamps when the call leaves it out). *)
C15_UpdateMergesMetadata ==
    [][\A r \in Slots :
          PutReturns(r, "updateLlmsTxt") =>
              LET key == normalize(reqs[r].url)
                  old == mapGet(storage.records, key).metadata
                  new == mapGet(storage'.records, key).metadata
                  supplied == reqs[r].metadata
              IN /\ \A k \in DOMAIN supplied :
                        k \in DOMAIN new /\ new[k] = supplied[k]
                 /\ \A k \in (DOMAIN old) \ ((DOMAIN supplied) \cup {"processingTime"}) :
                        k \in DOMAIN new /\ new[k] = old[k]
      ]_vars

(* C17: no record is ever stored under the empty key, and a checkCache,
   storeContent or updateLlmsTxt whose url normalizes to the empty string is
   answered with an error. *)
C17_EmptyKeyRejected ==
    /\ ~mapHas(storage.records, "")
    /\ \A r \in Slots :
           (/\ reqs[r].pc = "done"
            /\ reqs[r].op \in {"checkCache", "storeContent", "updateLlmsTxt"}
            /\ normalize(reqs[r].url) = "")
           => reqs[r].resp.status # 200

\* the history with another comparisonThreshold kept on every record
withThreshold(history, t) ==
    [history EXCEPT !.records =
        [i \in 1..Len(history.records) |->
            [history.records[i] EXCEPT !.comparisonThreshold = t]]]

(* C18: the cached verdict and the similarity a checkCache answers are the
   ones it would answer on a store that differs only in the
   comparisonThreshold kept on the records. *)
C18_RecordThresholdIgnored ==
    [][\A r \in Slots :
          (reqs[r].pc = "checkCache:get" /\ reqs'[r].pc = "done") =>
              \A t \in {Frac(1, 2), Frac(8, 10), Frac(1, 1)} :
                  LET body == reqs'[r].resp.body
                      other == checkCacheResult(
                                   withThreshold(getHistory(storage, now), t),
                                   reqs[r].url, reqs[r].content, thresholdOf(reqs[r]))
                  IN /\ other.cached = body.cached
                     /\ ("similarity" \in DOMAIN other) = ("similarity" \in DOMAIN body)
                     /\ "similarity" \in DOMAIN body =>
                            FracEq(other.similarity, body.similarity)
      ]_vars

\* a record stored with threshold 0.5 is checked at threshold 1 with content
\* of similarity 58/64: a miss, where the record's threshold would say hit
C18_Witness ==
    \E r \in Slots :
        /\ Answered(r, "checkCache")
        /\ thresholdOf(reqs[r]) = Frac(1, 1)
        /\ mapHas(storage.records, normalize(reqs[r].url))
        /\ mapGet(storage.records, normalize(reqs[r].url)).comparisonThreshold = Frac(1, 2)
        /\ ~reqs[r].resp.body.cached
        /\ FracGE(reqs[r].resp.body.similarity, Frac(1, 2))

\* what getStats returns, called in this state
stats == getStatsResult(getHistory(storage, now), now)

(* C19: once clearAll has completed every key is absent: while nothing is
   stored a checkCache answers cached = false, a getLatest finds no record
   and getStats counts 0 urls; and the write that ends this is a storeContent
   or a POST /store. *)
C19_ClearedUntilStored ==
    [][/\ \A r \in Slots :
             /\ (reqs[r].pc = "clearAll:delete" /\ reqs'[r].pc = "done")
                    => ~storage'.present
             /\ (reqs[r].pc = "checkCache:get" /\ reqs'[r].pc = "done"
                     /\ ~storage.present)
                    => reqs'[r].resp.body = [cached |-> FALSE]
             /\ (reqs[r].pc = "getLatest:get" /\ reqs'[r].pc = "done"
                     /\ ~storage.present)
                    => reqs'[r].resp.body = [found |-> FALSE]
       /\ (~storage.present /\ storage'.present)
              => \E r \in Slots : /\ reqs[r].pc = "storeRecord:put"
                                  /\ reqs'[r].pc = "done"
                                  /\ reqs[r].op \in {"storeContent", "storeRecord"}
       /\ ~storage.present => stats.uniqueUrls = 0
      ]_vars

\* after a clearAll, a checkCache on the example resource was answered: not cached
C19_Witness ==
    /\ cleared
    /\ Answered(1, "checkCache")
    /\ reqs[1].url \in ExampleSpellings
    /\ reqs[1].resp.body = [cached |-> FALSE]
    /\ stats.uniqueUrls = 0

(* C19 as stated: once clearAll has completed, nothing is stored until a
   storeContent stores it (afterClear: the clearAll was the last write when
   this one was called). *)
C19_AsStated ==
    [][(~storage.present /\ storage'.present)
          => \E r \in Slots : /\ reqs[r].pc = "storeRecord:put"
                              /\ reqs'[r].pc = "done"
                              /\ reqs[r].afterClear => reqs[r].op = "storeContent"
      ]_vars

(* C20: getStats returns uniqueUrls equal to the number of resident records
   and recentActivity equal to the number of resident records whose
   lastQueried is at or before the call and less than ONE_DAY_MS before it, so
   recentActivity <= uniqueUrls. *)
C20_StatsCountRecords ==
    /\ stats.uniqueUrls = Cardinality(mapKeys(storage.records))
    /\ stats.recentActivity =
           Cardinality({k \in mapKeys(storage.records) :
                           /\ mapGet(storage.records, k).lastQueried <= now
                           /\ now - mapGet(storage.records, k).lastQueried < ONE_DAY_MS})
    /\ stats.recentActivity <= stats.uniqueUrls

\* two records are resident, one queried within the day and one before it
C20_Witness ==
    /\ stats.uniqueUrls = 2
    /\ stats.recentActivity = 1

RECURSIVE toUpperCase(_)
toUpperCase(s) ==
    IF s = "" THEN ""
    ELSE LET c == CharAt(s, 1)
             l == IndexIn(c, LowerChars)
         IN (IF l > 0 THEN CharAt(UpperChars, l) ELSE c)
                \o toUpperCase(SubSeq(s, 2, Len(s)))

\* normalize has returned
Normalized == call.fn = "normalize"

(* C21: normalize is idempotent: normalize applied to a result of normalize
   returns that result, whatever the url was. *)
C21_NormalizeIdempotent ==
    Normalized => UrlNormalizer_normalize(call.result) = call.result

\* url without its last character
dropLast(url) == SubSeq(url, 1, Len(url) - 1)

(* C22: normalize gives the key of x also for x in upper and in lower case,
   for x behind http:// or https://, for x behind www., and for x with or
   without a trailing slash (x not empty, with and without it); normalize("HTTP://WWW.Example.com") is
   normalize("example.com/"); and areEquivalent holds exactly when the two
   keys are equal. *)
C22_SpellingsShareKey ==
    /\ Normalized /\ call.url \notin {Undefined, "", "/"} =>
           /\ UrlNormalizer_normalize(toUpperCase(call.url)) = call.result
           /\ UrlNormalizer_normalize(toLowerCase(call.url)) = call.result
           /\ UrlNormalizer_normalize("http://" \o call.url) = call.result
           /\ UrlNormalizer_normalize("https://" \o call.url) = call.result
           /\ UrlNormalizer_normalize("www." \o call.url) = call.result
           /\ UrlNormalizer_normalize(call.url \o "/") = call.result
           /\ endsWith(call.url, "/") =>
                  UrlNormalizer_normalize(dropLast(call.url)) = call.result
    /\ UrlNormalizer_normalize("HTTP://WWW.Example.com")
           = UrlNormalizer_normalize("example.com/")
    /\ call.fn = "areEquivalent" =>
           (call.result <=> UrlNormalizer_normalize(call.url1)
                                = UrlNormalizer_normalize(call.url2))

(* C23: every non-empty result of normalize ends with a slash and has no two
   slashes next to each other, so it ends with exactly one. *)
C23_OneTrailingSlash ==
    Normalized /\ call.result # "" =>
        /\ endsWith(call.result, "/")
        /\ \A i \in 1..(Len(call.result) - 1) :
               ~(CharAt(call.result, i) = "/" /\ CharAt(call.result, i + 1) = "/")

\* a url ending in two slashes was normalized to a key ending in one
C23_Witness ==
    /\ Normalized
    /\ call.url = "a.com//"
    /\ call.result = "a.com/"

\* nothing is left of url once it is trimmed, or there is no url
EmptyUrl(url) == url = Undefined \/ trim(url) = ""

(* C24: normalize returns "" for an undefined, an empty and a whitespace-only
   url, and normalizeArray keeps no entry for such a url. *)
C24_EmptyUrlGivesEmptyKey ==
    /\ Normalized /\ EmptyUrl(call.url) => call.result = ""
    /\ call.fn = "normalizeArray" =>
           Len(call.result) = Cardinality({i \in 1..Len(call.urls) : ~EmptyUrl(call.urls[i])})

(* C25: generateCacheKey returns the same key for a list of urls and for
   every permutation of it. *)
C25_CacheKeyOrderIndependent ==
    call.fn = "generateCacheKey" =>
        \A f \in Permutations(1..Len(call.urls)) :
            generateCacheKey([i \in 1..Len(call.urls) |-> call.urls[f[i]]]) = call.result

\* two urls given in descending order of their keys came out in ascending order
C25_Witness ==
    /\ call.fn = "generateCacheKey"
    /\ call.urls = <<"b.com", "https://a.com">>
    /\ call.result = "a.com/|b.com/"

\* hash has returned
Hashed == call.fn = "hash"

\* the text is undefined, or holds whitespace only (the empty text included)
WhitespaceOnly(content) ==
    content = Undefined \/ \A i \in 1..Len(content) : IsSpace(CharAt(content, i))

(* C26: hash returns "0000000000000000" for the empty text, for an undefined
   text and for every text of whitespace only. *)
C26_EmptyTextGivesZeroHash ==
    Hashed /\ WhitespaceOnly(call.content) => call.result = "0000000000000000"

\* the hash of a text of a space, a tab and a newline was returned
C26_Witness ==
    /\ Hashed
    /\ call.content = " \t\n"
    /\ call.result = EMPTY_HASH

\* the number of the four bits in which two hexadecimal digits differ
digitDistance(c1, c2) ==
    LET d1 == IndexIn(c1, HexChars) - 1
        d2 == IndexIn(c2, HexChars) - 1
    IN Cardinality({b \in 0..3 : (d1 \div Pow2(b)) % 2 # (d2 \div Pow2(b)) % 2})

\* the Hamming distance of two hashes of 16 digits, digit by digit
hammingByDigits(hash1, hash2) ==
    SumOver([j \in 1..16 |-> digitDistance(CharAt(hash1, j), CharAt(hash2, j))], 1..16)

(* C27: similarity(a, b) is 1 - hammingDistance(a, b) / 64 for hashes a and b
   of 64 bits: it equals similarity(b, a), lies between 0 and 1, and is 1 when
   a = b, as it is for the hash of a text and the hash of the same text. *)
C27_SimilarityIsHammingShare ==
    call.fn = "similarity" =>
        /\ FracEq(call.result,
                  Frac(64 - hammingByDigits(call.hash1, call.hash2), 64))
        /\ FracEq(call.result, similarity(call.hash2, call.hash1))
        /\ FracGE(call.result, Frac(0, 1))
        /\ FracGE(Frac(1, 1), call.result)
        /\ call.hash1 = call.hash2 => FracEq(call.result, Frac(1, 1))

\* two hashes 16 bits apart were compared: 48/64
C27_Witness ==
    /\ call.fn = "similarity"
    /\ call.hash1 = "05f1269205f12692"
    /\ call.hash2 = "04f1398a04f1398a"
    /\ FracEq(call.result, Frac(48, 64))

\* the k-grams of the normalized text, one per position where one starts
kgramStarts(content) == 1..(Len(normalizeContent(content)) - KGRAM_SIZE + 1)

\* per position of a k-gram, the simpleHash of the k-gram that starts there
kgramHashes(content) ==
    [p \in kgramStarts(content) |->
        simpleHash(SubSeq(normalizeContent(content), p, p + KGRAM_SIZE - 1))]

\* the accumulator of bit i: +1 per k-gram occurrence whose hash has bit i
\* (read as computeSimHash reads it, hashBit) and -1 per occurrence without
accumulator(content, i) ==
    LET hashes == kgramHashes(content)
    IN SumOver([p \in DOMAIN hashes |-> IF hashBit(hashes[p], i) = 1 THEN 1 ELSE 0 - 1],
               DOMAIN hashes)

(* C28: bit i (0..63) of the hash of a text is set exactly when the
   accumulator of position i, +1 for each occurrence of a k-gram whose hash
   has bit i and -1 for each other occurrence, is greater than 0; it is clear
   when the accumulator is 0. *)
C28_BitSetIffAccumulatorPositive ==
    Hashed /\ call.content \notin {Undefined, ""} =>
        \A i \in 0..(HASH_BITS - 1) :
            (i \in parseHex(call.result)) <=> (accumulator(call.content, i) > 0)

\* "abcdef" has two k-grams: where their hashes differ the accumulator is 0 and
\* the bit clear, where both have the bit it is 2 and the bit set
C28_Witness ==
    /\ Hashed
    /\ call.content = "abcdef"
    /\ \E i \in 0..(HASH_BITS - 1) :
           accumulator(call.content, i) = 0 /\ i \notin parseHex(call.result)
    /\ \E i \in 0..(HASH_BITS - 1) :
           accumulator(call.content, i) = 2 /\ i \in parseHex(call.result)

\* the characters of a string are among the hexadecimal digits
IsHex(str) == \A i \in 1..Len(str) : IndexIn(CharAt(str, i), HexChars) > 0

(* C29: every value hash returns is a string of exactly 16 characters, each
   one of 0-9 and a-f. *)
C29_HashIsSixteenHexDigits ==
    Hashed => Len(call.result) = 16 /\ IsHex(call.result)

\* a hash that is not the empty hash and needs its leading zeros was returned
C29_Witness ==
    /\ Hashed
    /\ call.result # EMPTY_HASH
    /\ CharAt(call.result, 1) = "0"
    /\ Len(call.result) = 16

(* C30: while the record storeContent("https://example.com", TestPage,
   "SUMMARY-1", 0.8) left is the last write on its key, a
   checkCache("example.com", Unrelated, 0.8) answers cached = false with a
   similarity below 0.8 and without an llmsTxt. *)
C30_ScenarioB ==
    \A r \in Slots :
        (/\ Answered(r, "checkCache")
         /\ reqs[r].url = "example.com"
         /\ reqs[r].content = Unrelated
         /\ thresholdOf(reqs[r]) = Frac(8, 10)
         /\ \E e \in written :
                /\ e.url = "https://example.com"
                /\ e.content = TestPage
                /\ e.llmsTxt = "SUMMARY-1"
                /\ ~e.updated)
        => /\ reqs[r].resp.status = 200
           /\ reqs[r].resp.body.cached = FALSE
           /\ ~FracGE(reqs[r].resp.body.similarity, Frac(8, 10))
           /\ "llmsTxt" \notin DOMAIN reqs[r].resp.body

\* the test page is stored and the unrelated page was checked: similarity 48/64
C30_Witness ==
    \E r \in Slots, e \in written :
        /\ Answered(r, "checkCache")
        /\ reqs[r].url = "example.com"
        /\ reqs[r].content = Unrelated
        /\ e.url = "https://example.com"
        /\ e.content = TestPage
        /\ ~e.updated
        /\ reqs[r].resp.body.cached = FALSE
        /\ FracEq(reqs[r].resp.body.similarity, Frac(48, 64))

\* the object has answered the route's checkCache with a hit: cached, and an
\* llmsTxt that is not empty
AnsweredHit ==
    /\ reqs[1].pc = "done" /\ reqs[1].op = "checkCache"
    /\ reqs[1].resp.status = 200
    /\ reqs[1].resp.body.cached
    /\ "llmsTxt" \in DOMAIN reqs[1].resp.body
    /\ reqs[1].resp.body.llmsTxt # ""

(* C31: for a url whose page the generate route has fetched, generateText is
   invoked exactly when checkCache did not return cached = true with an
   llmsTxt that is not empty (a checkCache that failed, or none without a
   store, counts as a miss); and storeContent is called for the url only
   after generateText returned a response, with the url and the content
   checkCache was called with, and not after a hit. *)
C31_GenerateOnMissOnly ==
    [][/\ (handler.pc = "checkCache" /\ handler'.pc # "checkCache")
              => (handler'.pc = "generate" <=> ~AnsweredHit)
       /\ (handler.pc # "generate" /\ handler'.pc = "generate")
              => \/ handler.pc = "checkCache" /\ ~AnsweredHit
                 \/ handler.pc = "fetch" /\ ~handler.hasStore
       /\ (handler.pc = "fetch" /\ handler'.pc \notin {"fetch", "respond"})
              => (handler'.pc = "generate" <=> ~handler.hasStore)
       /\ (reqs[1].pc = "idle" /\ reqs'[1].pc = "json" /\ reqs'[1].op = "storeContent")
              => /\ handler.pc = "storeContent"
                 /\ "response" \in DOMAIN handler
                 /\ "checked" \in DOMAIN handler
                 /\ reqs'[1].content = handler.checked
                 /\ reqs'[1].url = handler.urls[handler.i]
                 /\ reqs'[1].llmsTxt = handler.response
      ]_vars

\* the second POST found what the first one stored: its checkCache is answered
\* with a hit, under another spelling of the url
C31_Witness ==
    /\ handler.pc = "checkCache"
    /\ handler.posts = 2
    /\ handler.urls[handler.i] = "HTTP://WWW.Example.com/"
    /\ AnsweredHit
    /\ \E e \in written : e.url = "https://example.com"

(* C32: every request of UrlMetaStoreClient is matched by a case of the
   dispatcher, so none is answered 404, and the request of client.getStats
   is answered with what getStats returns. *)
C32_ClientRequestsRouted ==
    \A r \in Slots :
        reqs[r].pc = "done" =>
            /\ reqs[r].resp.status # 404
            /\ reqs[r].op = "stats" =>
                   reqs[r].resp.status = 200 /\ reqs[r].resp.body = stats

(* C33: the record a write puts is not the one its own trim removes: when
   the put of a storeContent(url, ...) has completed, a record is resident
   under normalize(url), also when the map was full and other records have
   the lastQueried of the new one. *)
C33_WrittenRecordSurvivesTrim ==
    [][\A r \in Slots :
          (/\ reqs[r].pc = "storeRecord:put"
           /\ reqs'[r].pc = "done"
           /\ reqs'[r].resp.status = 200
           /\ reqs[r].op = "storeContent")
          => mapHas(storage'.records, normalize(reqs[r].url))
      ]_vars

\* the sum of queryCount over the records of a history
sumOfQueryCounts(records) ==
    SumOver([i \in 1..Len(records) |-> records[i].queryCount], 1..Len(records))

\* totalQueries less the sum of queryCount over the stored records
uncounted(store) ==
    getHistory(store, now).totalQueries - sumOfQueryCounts(getHistory(store, now).records)

(* C34: in every reachable state totalQueries is at least the sum of
   queryCount over the stored records and every stored record has
   queryCount >= 1; the two are equal initially and after clearAll, and a
   write that discards no record leaves their difference as it was, so they
   are equal until a write discards a record. *)
C34_TotalCountsEveryQuery ==
    /\ uncounted(Absent) = 0
    /\ [](/\ uncounted(storage) >= 0
          /\ \A i \in 1..Len(getHistory(storage, now).records) :
                 getHistory(storage, now).records[i].queryCount >= 1)
    /\ [][/\ (reqs[1].pc = "clearAll:delete" /\ reqs'[1].pc = "done")
                 => uncounted(storage)' = 0
          /\ (/\ reqs[1].pc = "storeRecord:put" /\ reqs'[1].pc = "done"
              /\ mapKeys(getHistory(storage, now).records) \cup {keyOf(reqs[1])}
                     \subseteq mapKeys(getHistory(storage, now).records)')
                 => uncounted(storage)' = uncounted(storage)
          /\ (reqs[1].pc = reqs'[1].pc \/ reqs'[1].pc # "done")
                 => uncounted(storage)' = uncounted(storage)
         ]_vars

\* a storeContent on a full map has completed, and a record it discarded had
\* been counted
C34_Witness ==
    /\ Answered(1, "storeContent")
    /\ storage.present
    /\ Len(storage.records) = MAX_RECORDS
    /\ uncounted(storage) = 1
    /\ mapHas(storage.records, normalize(reqs[1].url))

(* C35: in every reachable state every key k of the record map is canonical
   and the record under it carries it: normalize(k) = k and the record's url
   is k, so that getLatestRecordForUrl(k) finds that record. *)
C35_KeysCanonical ==
    \A k \in mapKeys(getHistory(storage, now).records) :
        /\ normalize(k) = k
        /\ mapGet(getHistory(storage, now).records, k).url = k
        /\ getLatestRecordResult(getHistory(storage, now), k)
               = [found |-> TRUE, record |-> mapGet(getHistory(storage, now).records, k)]

\* the contents whose normalized form is shorter than a k-gram
IsShort == [c \in ShortContents \cup Contents |-> Len(normalizeContent(c)) < KGRAM_SIZE]

\* the content of the last storeContent under the key of request r
storedContent(r) == (CHOOSE e \in written : e.key = normalize(reqs[r].url)).content

(* C36: a content whose normalized form has fewer than KGRAM_SIZE characters
   is stored with the all-zero contentHash; and a checkCache with such a
   content, on a key stored with such a content, reports similarity 1 and is a
   hit with the stored llmsTxt at every threshold <= 1, whatever the two
   contents are. *)
C36_ShortContentsAllAlike ==
    /\ \A e \in written :
           IsShort[e.content] =>
               /\ mapHas(storage.records, e.key)
               /\ mapGet(storage.records, e.key).contentHash = EMPTY_HASH
    /\ (/\ Answered(1, "checkCache")
        /\ written # {}
        /\ storedContent(1) # reqs[1].content
        /\ IsShort[storedContent(1)]
        /\ IsShort[reqs[1].content])
       => /\ FracEq(reqs[1].resp.body.similarity, Frac(1, 1))
          /\ reqs[1].resp.body.contentHash = EMPTY_HASH
          /\ reqs[1].resp.body.cached <=> FracGE(Frac(1, 1), thresholdOf(reqs[1]))
          /\ reqs[1].resp.body.cached => reqs[1].resp.body.llmsTxt = "SUMMARY-1"

\* "ab-cd" was stored, and a checkCache with "Hi!" at threshold 1 is answered
C36_Witness ==
    /\ Answered(1, "checkCache")
    /\ reqs[1].content = "Hi!"
    /\ thresholdOf(reqs[1]) = Frac(1, 1)
    /\ written # {}
    /\ storedContent(1) = "ab-cd"
    /\ reqs[1].resp.body.cached

\* bit i + 32 of the hash equals bit i, for i in 0..31
Mirrored(h) == \A i \in 0..31 : (i \in parseHex(h)) <=> ((i + 32) \in parseHex(h))

(* C37: in the hash of every text bit i + 32 equals bit i for all i in
   0..31; so the Hamming distance of the hashes of two texts is even and their
   similarity is a multiple of 1/32. *)
C37_UpperHalfMirrorsLower ==
    /\ call.fn \in {"hash", "similarity"} =>
           /\ Mirrored(call.hash1)
           /\ Mirrored(call.hash2)
           /\ hammingByDigits(call.hash1, call.hash2) % 2 = 0
    /\ call.fn = "similarity" =>
           \E m \in 0..32 : FracEq(call.result, Frac(m, 32))

\* two texts whose hashes differ in 3 of the low 32 bits: 58/64 = 29/32
C37_Witness ==
    /\ call.fn = "similarity"
    /\ call.content1 = TestPage
    /\ call.content2 = BestPage
    /\ hammingByDigits(call.hash1, call.hash2) = 6
    /\ FracEq(call.result, Frac(29, 32))

====
